---- MODULE Spec2Model ----
(***************************************************************************)
(* Model of the newsletter generator's agent core:                         *)
(*   - OpenAIAgent.summarizeRepo (tool-calling loop, token budgeting,      *)
(*     result extraction), src/src/config.ts lines 146-499;                *)
(*   - GitHubMCPClient connect / callTool / disconnect,                    *)
(*     src/src/mcp-client.ts lines 18-306.                                 *)
(*                                                                         *)
(* Texts are represented by their length in characters (what the token     *)
(* estimate depends on), a kind that records where the text came from,     *)
(* and, for the final assistant text, the characters themselves.           *)
(***************************************************************************)
EXTENDS Integers, Sequences, FiniteSets, TLC

VARIABLES
    client,           \* GitHubMCPClient.client: "null" | "open" | "failed"
    deviations,       \* departures of the environment from its default
    pc,               \* position of summarizeRepo
    repo,             \* the repo argument of summarizeRepo
    messages,         \* the local variable messages (the live history)
    iteration,        \* the local variable iteration
    pending,          \* message.tool_calls of the round being dispatched
    idx,              \* position of the for-loop in pending (1-based)
    result,           \* the RepoSummary returned, or NoResult
    error,            \* the error raised by summarizeRepo, or "none"
    lastResponse,     \* the last answer of the reasoning service
    lastCall,         \* how the last callTool invocation ended
    requests,         \* requests sent to the reasoning service in this run
    toolInvocations,  \* callTool invocations made in this run
    hostCalls,        \* invocations forwarded to the capability host
    nextId,           \* next fresh tool-call id of the reasoning service
    trunc,            \* a call of truncateContent: arguments and results
    extract,          \* a call of parseSummaryFromMessage: text and result
    adapter,          \* calls made on a GitHubMCPClient and their effects
    disc,             \* a run of discoverReposWithActivity
    listing,          \* a call of checkRepoHasPRsInTimeframe
    main,             \* a run of main
    toolres,          \* one tool call of a round exercised alone
    mapping,          \* one use of mapToolNameAndArgs
    grouping          \* one use of groupReposByTeam

vars == <<client, deviations, pc, repo, messages, iteration, pending, idx,
          result, error, lastResponse, lastCall, requests,
          toolInvocations, hostCalls, nextId, trunc, extract, adapter,
          disc, listing, main, toolres, mapping,
                grouping>>

agentVars == <<pc, repo, messages, iteration, pending, idx, result, error,
               lastResponse, lastCall, requests,
               toolInvocations, hostCalls, nextId>>

\* the variables of the specifications that exercise one operation alone
unitVars == <<trunc, extract, adapter, disc, listing, main, toolres, mapping,
                grouping>>

---------------------------------------------------------------------------
(* Bounds of the model *)

MaxCalls == 2          \* tool calls per response of the reasoning service
RichRounds == 1        \* rounds in which the environment may depart from
                       \* its default behaviour (one well-formed call of a
                       \* plain tool, answered by a small host result)
MaxDeviations == 2     \* departures from the default per behaviour
SmallLen == 120        \* characters of a small host result segment
HugeLen == 50000       \* characters of an oversized host result segment
ShortErrLen == 16      \* characters of a host error message

(* Program constants *)

MAX_TOOL_RESULT_TOKENS == 5000
MAX_TOTAL_MESSAGE_TOKENS == 20000
maxIterations == 20
CharsPerToken == 4
KeepLast == 5
MarkerLen == 43
SystemPromptBaseLen == 485
UserPromptBaseLen == 1112

Owner == "acme"
Repos == {"api"}

Min(a, b) == IF a < b THEN a ELSE b

RECURSIVE SumLens(_)
SumLens(s) == IF s = <<>> THEN 0 ELSE Len(Head(s)) + SumLens(Tail(s))

---------------------------------------------------------------------------
(* Texts *)

Text(kind, len) == [kind |-> kind, len |-> len, body |-> <<>>]
BodyText(body) == [kind |-> "final", len |-> Len(body), body |-> body]
NullContent == [kind |-> "null", len |-> 0, body |-> <<>>]

\* typeof msg.content === "string" ? msg.content : JSON.stringify(msg.content)
\* JSON.stringify(null) is the four characters null
ContentStringLen(c) == IF c.kind = "null" THEN 4 ELSE c.len

estimateTokens(len) == (len + CharsPerToken - 1) \div CharsPerToken

truncateContent(content, maxTokens) ==
    IF estimateTokens(content.len) <= maxTokens
    THEN content
    ELSE [kind |-> "truncated",
          len |-> Min(content.len, maxTokens * CharsPerToken) + MarkerLen,
          body |-> <<>>]

---------------------------------------------------------------------------
(* truncateContent on the characters of a text *)

\* "\n\n[Content truncated due to size limits...]"
Marker ==
    << "\n", "\n", "[", "C", "o", "n", "t", "e", "n", "t", " ",
       "t", "r", "u", "n", "c", "a", "t", "e", "d", " ", "d", "u", "e", " ",
       "t", "o", " ", "s", "i", "z", "e", " ",
       "l", "i", "m", "i", "t", "s", ".", ".", ".", "]" >>

\* String.prototype.substring(0, n) for n >= 0
substring(content, n) == SubSeq(content, 1, Min(n, Len(content)))

\* variant: the estimate is compared with < instead of <=
truncateChars_StrictCompare(content, maxTokens) ==
    IF estimateTokens(Len(content)) < maxTokens
    THEN content
    ELSE substring(content, maxTokens * CharsPerToken) \o Marker

\* variant: the cut is taken one token too late
truncateChars_CutTooLate(content, maxTokens) ==
    IF estimateTokens(Len(content)) <= maxTokens
    THEN content
    ELSE substring(content, (maxTokens + 1) * CharsPerToken) \o Marker

\* variant: the marker is put in front of the cut
truncateChars_MarkerFirst(content, maxTokens) ==
    IF estimateTokens(Len(content)) <= maxTokens
    THEN content
    ELSE Marker \o substring(content, maxTokens * CharsPerToken)

\* truncateContent, on a text given by its characters
truncateChars(content, maxTokens) ==
    IF estimateTokens(Len(content)) <= maxTokens
    THEN content
    ELSE substring(content, maxTokens * CharsPerToken) \o Marker

---------------------------------------------------------------------------
(* Tool names, as the words joined by "_" *)

ListPullRequests == <<"mcp", "GitHub", "list", "pull", "requests">>
GetPullRequestDiff == <<"mcp", "GitHub", "get", "pull", "request", "diff">>
ToolNames == {ListPullRequests, GetPullRequestDiff}

NameLen(name) == SumLens(name) + Len(name) - 1
Includes(name, word) == \E i \in 1..Len(name) : name[i] = word

---------------------------------------------------------------------------
(* Messages *)

Msg(role, content, calls, id) ==
    [role |-> role, content |-> content, calls |-> calls, tool_call_id |-> id]

buildSystemPrompt(owner, r) ==
    Text("system-prompt", SystemPromptBaseLen + Len(owner) + Len(r))
buildUserPrompt(owner, r) ==
    Text("user-prompt", UserPromptBaseLen + Len(owner) + Len(r))

InitialMessages(owner, r) ==
    << Msg("system", buildSystemPrompt(owner, r), <<>>, 0),
       Msg("user", buildUserPrompt(owner, r), <<>>, 0) >>

RECURSIVE totalMessageSize(_)
totalMessageSize(msgs) ==
    IF msgs = <<>> THEN 0
    ELSE estimateTokens(ContentStringLen(Head(msgs).content))
         + totalMessageSize(Tail(msgs))

\* Array.prototype.slice(-n)
SliceLast(msgs, n) ==
    IF Len(msgs) <= n THEN msgs ELSE SubSeq(msgs, Len(msgs) - n + 1, Len(msgs))

\* variant: the total is compared with the per-result limit
ExceedsCeiling_WrongLimit(total) == total > MAX_TOOL_RESULT_TOKENS * 2

ExceedsCeiling(total) == total > MAX_TOTAL_MESSAGE_TOKENS

\* variant: a history that has lost the user prompt gets it back behind
\* the system prompt when it is within the ceiling
budgetConversation_RestoresPrompt(msgs) ==
    IF ExceedsCeiling(totalMessageSize(msgs))
    THEN <<msgs[1]>> \o SliceLast(msgs, KeepLast)
    ELSE IF \E i \in 1..Len(msgs) : msgs[i].role = "user"
    THEN msgs
    ELSE <<msgs[1], Msg("user", buildUserPrompt(Owner, "api"), <<>>, 0)>>
         \o Tail(msgs)

budgetConversation(msgs) ==
    IF ExceedsCeiling(totalMessageSize(msgs))
    THEN <<msgs[1]>> \o SliceLast(msgs, KeepLast)
    ELSE msgs

\* variant: the loop condition is off by one
LoopContinues_OffByOne(it) == it <= maxIterations

LoopContinues(it) == it < maxIterations

---------------------------------------------------------------------------
(* Structured-result extraction *)

NoResult == [kind |-> "none"]

FirstOpen(body) ==
    IF \E i \in 1..Len(body) : body[i] = "{"
    THEN CHOOSE i \in 1..Len(body) :
            body[i] = "{" /\ \A j \in 1..(i - 1) : body[j] # "{"
    ELSE 0
LastClose(body) ==
    IF \E i \in 1..Len(body) : body[i] = "}"
    THEN CHOOSE i \in 1..Len(body) :
            body[i] = "}" /\ \A j \in (i + 1)..Len(body) : body[j] # "}"
    ELSE 0

\* content.match(/\{[\s\S]*\}/): from the first "{" to the last "}" after it
jsonMatch(body) ==
    IF FirstOpen(body) > 0 /\ LastClose(body) > FirstOpen(body)
    THEN SubSeq(body, FirstOpen(body), LastClose(body))
    ELSE <<>>

\* The members of a JSON object in a final text, each taken as one token
SummaryX == "\"overallSummary\":\"x\""
NoPulls == "\"pullRequests\":[]"
OnePull == "\"pullRequests\":[\"pr\"]"
NoBreaking == "\"breakingChanges\":[]"
OneBreaking == "\"breakingChanges\":[\"bc\"]"
PullsFive == "\"pullRequests\":5"
PullsZero == "\"pullRequests\":0"
PullsText == "\"pullRequests\":\"none\""
BreakingObject == "\"breakingChanges\":{}"
BreakingNull == "\"breakingChanges\":null"
Fields ==
    {SummaryX, NoPulls, OnePull, NoBreaking, OneBreaking, PullsFive,
     PullsZero, PullsText, BreakingObject, BreakingNull}

KeyOf(field) ==
    CASE field = SummaryX -> "overallSummary"
      [] field \in {NoPulls, OnePull, PullsFive, PullsZero, PullsText}
            -> "pullRequests"
      [] field \in {NoBreaking, OneBreaking, BreakingObject, BreakingNull}
            -> "breakingChanges"

\* a list is the sequence of its items ("pr", "bc"); a value that is not a
\* list is the one-item sequence of its JSON text
ValueOf(field) ==
    CASE field = SummaryX -> <<"x">>
      [] field = OnePull -> <<"pr">>
      [] field = OneBreaking -> <<"bc">>
      [] field \in {NoPulls, NoBreaking} -> <<>>
      [] field = PullsFive -> <<"5">>
      [] field = PullsZero -> <<"0">>
      [] field = PullsText -> <<"\"none\"">>
      [] field = BreakingObject -> <<"{}">>
      [] field = BreakingNull -> <<"null">>

\* JSON.parse on a text over "{", "}", ",", "x" and the members above that
\* starts with "{" and ends with "}": it decodes when the text between the
\* braces is empty or a comma-separated list of members
JsonParses(s) ==
    /\ Len(s) >= 2
    /\ s[1] = "{"
    /\ s[Len(s)] = "}"
    /\ \/ Len(s) = 2
       \/ /\ Len(s) % 2 = 1
          /\ \A i \in 2..(Len(s) - 1) :
                IF i % 2 = 0 THEN s[i] \in Fields ELSE s[i] = ","

Undefined == <<"undefined">>

\* parsed.key: the value of the last member with that key
JsonField(s, key) ==
    IF \E i \in 1..Len(s) : s[i] \in Fields /\ KeyOf(s[i]) = key
    THEN ValueOf(s[CHOOSE i \in 1..Len(s) :
                      /\ s[i] \in Fields /\ KeyOf(s[i]) = key
                      /\ \A j \in (i + 1)..Len(s) :
                            ~(s[j] \in Fields /\ KeyOf(s[j]) = key)])
    ELSE Undefined

Placeholder == <<"No summary provided">>

\* variant: a missing field is passed on as it is
OrDefault_Ignored(value, default) == value

\* the values that count as false: undefined, null, 0
Falsy(value) == value \in {Undefined, <<"null">>, <<"0">>}

\* parsed.field || default
OrDefault(value, default) == IF Falsy(value) THEN default ELSE value

\* the try block: match, then JSON.parse of the match
ParseOutcome(body) ==
    IF jsonMatch(body) = <<>> THEN "no-match"
    ELSE IF JsonParses(jsonMatch(body)) THEN "parsed"
    ELSE "SyntaxError"

\* variant: the error of JSON.parse is not caught
Caught_Rethrown(outcome) == outcome

\* catch (error) { console.warn(...) }: the error ends here
Caught(outcome) == IF outcome = "SyntaxError" THEN "caught" ELSE outcome

parseSummaryFromMessage(body, owner, r) ==
    IF Caught(ParseOutcome(body)) = "parsed"
    THEN [kind |-> "summary", repoName |-> r, owner |-> owner,
          overallSummary |->
              OrDefault(JsonField(jsonMatch(body), "overallSummary"),
                        Placeholder),
          pullRequests |->
              OrDefault(JsonField(jsonMatch(body), "pullRequests"), <<>>),
          breakingChanges |->
              OrDefault(JsonField(jsonMatch(body), "breakingChanges"), <<>>)]
    ELSE IF Caught(ParseOutcome(body)) = "SyntaxError"
    THEN [kind |-> "raised", repoName |-> r, owner |-> owner,
          overallSummary |-> Undefined,
          pullRequests |-> <<>>, breakingChanges |-> <<>>]
    ELSE [kind |-> "summary", repoName |-> r, owner |-> owner,
          overallSummary |-> IF body = <<>> THEN Placeholder ELSE body,
          pullRequests |-> <<>>, breakingChanges |-> <<>>]

\* variant: a single tool call is taken for none
NoToolCalls_OffByOne(m) == Len(m.calls) <= 1

NoToolCalls(m) == Len(m.calls) = 0

---------------------------------------------------------------------------
(* The ToolHost adapter: GitHubMCPClient *)

\* What the capability host does with a forwarded call: it returns a
\* result whose content is a sequence of text segments (given by their
\* lengths), or the SDK call rejects with a message of some length.
\* A result may carry the host's error flag (a failure of the tool that the
\* host reports in its result instead of rejecting the call).
HostReturns(segs) ==
    [kind |-> "returns", segs |-> segs, msgLen |-> 0, isError |-> FALSE]
HostReportsError(segs) ==
    [kind |-> "returns", segs |-> segs, msgLen |-> 0, isError |-> TRUE]
HostThrows(msgLen) ==
    [kind |-> "throws", segs |-> <<>>, msgLen |-> msgLen, isError |-> FALSE]

NotConnectedLen == 24      \* "MCP client not connected"
ErrorCallingLen == 19      \* "Error calling tool "
ErrorPrefixLen == 7        \* "Error: "
JsonItemOverhead == 25     \* {"type":"text","text":""}

\* variant: disconnect closes the client but keeps the reference to it
disconnect_KeepsClient(cl, closeOk) ==
    [client |-> cl,
     raised |-> cl # "null" /\ ~closeOk,
     closeCalls |-> IF cl = "null" THEN 0 ELSE 1,
     closed |-> IF cl = "open" /\ closeOk THEN 1 ELSE 0]

\* disconnect: with a client object, close() is awaited and, unless it
\* rejects, this.client is set to null; without one nothing is done.
\* closeCalls counts the calls of close(), closed the host connections
\* that were closed
disconnect(cl, closeOk) ==
    [client |-> IF cl # "null" /\ ~closeOk THEN cl ELSE "null",
     raised |-> cl # "null" /\ ~closeOk,
     closeCalls |-> IF cl = "null" THEN 0 ELSE 1,
     closed |-> IF cl = "open" /\ closeOk THEN 1 ELSE 0]

\* callTool: raises when this.client is null, otherwise forwards the call
\* and wraps what the host does into an envelope; the envelope of a call
\* that resolved has isError false, whatever the host's result says
callTool(cl, toolName, host) ==
    IF cl = "null"
    THEN [kind |-> "raised", isError |-> FALSE, segs |-> <<>>,
          msgLen |-> NotConnectedLen]
    ELSE IF cl = "open" /\ host.kind = "returns"
    THEN [kind |-> "envelope", isError |-> FALSE, segs |-> host.segs,
          msgLen |-> 0]
    ELSE [kind |-> "envelope", isError |-> TRUE,
          segs |-> << ErrorCallingLen + NameLen(toolName) + 2 + host.msgLen >>,
          msgLen |-> 0]

---------------------------------------------------------------------------
(* mapToolNameAndArgs: names are the words joined by "_", an argument bag *)
(* is a function from its keys to their values                            *)

GetPullRequest == <<"mcp", "GitHub", "get", "pull", "request">>
GetPullRequestFiles == <<"mcp", "GitHub", "get", "pull", "request", "files">>
ListCommits == <<"mcp", "GitHub", "list", "commits">>
PullRequestReadTool == <<"pull", "request", "read">>
ListCommitsTool == <<"list", "commits">>
ListOrgRepositoriesTool == <<"list", "org", "repositories">>

\* openAIToolName.includes("org_repo")
IncludesOrgRepo(name) ==
    \E i \in 1..(Len(name) - 1) :
        name[i] = "org" /\ name[i + 1] \in {"repo", "repos", "repositories"}

\* openAIToolName.replace(/^mcp_GitHub_/, "")
CleanedName(name) ==
    IF Len(name) >= 3 /\ name[1] = "mcp" /\ name[2] = "GitHub"
    THEN SubSeq(name, 3, Len(name))
    ELSE name

\* adjustedArgs.method = m, on the bag given
WithMethod(args, m) ==
    [k \in DOMAIN args \cup {"method"} |->
        IF k = "method" THEN m ELSE args[k]]

Mapped(actualToolName, adjustedArgs, args) ==
    [actualToolName |-> actualToolName, adjustedArgs |-> adjustedArgs,
     args |-> args]

\* variant: the method is written into the caller's bag
SetMethod_InPlace(name, args, m) == Mapped(name, WithMethod(args, m),
                                           WithMethod(args, m))

\* const adjustedArgs = { ...args }; adjustedArgs.method = m: the copy is
\* changed, the caller's bag is not
SetMethod(name, args, m) == Mapped(name, WithMethod(args, m), args)

\* the concrete name and arguments for a tool name, and the caller's bag
\* after the call
mapToolNameAndArgs(openAIToolName, args) ==
    IF openAIToolName = <<"mcp", "GitHub", "list", "pull", "requests">>
    THEN Mapped(<<"list", "pull", "requests">>, args, args)
    ELSE IF openAIToolName = GetPullRequest
    THEN SetMethod(PullRequestReadTool, args, "get")
    ELSE IF openAIToolName =
               <<"mcp", "GitHub", "get", "pull", "request", "diff">>
    THEN SetMethod(PullRequestReadTool, args, "diff")
    ELSE IF openAIToolName = GetPullRequestFiles
    THEN SetMethod(PullRequestReadTool, args, "files")
    ELSE IF openAIToolName = ListCommits
    THEN Mapped(ListCommitsTool, args, args)
    ELSE IF openAIToolName = ListOrgRepositoriesTool
            \/ IncludesOrgRepo(openAIToolName)
    THEN Mapped(ListOrgRepositoriesTool, args, args)
    ELSE Mapped(CleanedName(openAIToolName), args, args)

RECURSIVE SumSeq(_)
SumSeq(s) == IF s = <<>> THEN 0 ELSE Head(s) + SumSeq(Tail(s))

\* JSON.stringify(result.content) for text segments without escapes
JsonStringifyLen(segs) ==
    IF segs = <<>> THEN 2
    ELSE 2 + SumSeq(segs) + JsonItemOverhead * Len(segs) + (Len(segs) - 1)

\* result.content.map(item => item.text || JSON.stringify(item)).join("\n")
ItemTextLen(l) == IF l = 0 THEN JsonItemOverhead ELSE l
JoinedLen(segs) ==
    IF segs = <<>> THEN 0
    ELSE SumSeq([i \in 1..Len(segs) |-> ItemTextLen(segs[i])]) + (Len(segs) - 1)

\* variant: every tool gets the looser limit
ToolResultLimit_AlwaysLoose(toolName) == MAX_TOOL_RESULT_TOKENS * 2

ToolResultLimit(toolName) ==
    IF Includes(toolName, "diff") \/ Includes(toolName, "files")
    THEN MAX_TOOL_RESULT_TOKENS
    ELSE MAX_TOOL_RESULT_TOKENS * 2

\* the content of the tool-result message pushed for one tool call
ToolResultContent(toolName, outcome) ==
    IF outcome.kind = "raised"
    THEN Text("thrown-error", ErrorPrefixLen + outcome.msgLen)
    ELSE IF outcome.isError
    THEN Text("error-envelope", JsonStringifyLen(outcome.segs))
    ELSE IF truncateContent(Text("host-text", JoinedLen(outcome.segs)),
                            ToolResultLimit(toolName)).len = 0
    THEN Text("host-json", JsonStringifyLen(outcome.segs))
    ELSE truncateContent(Text("host-text", JoinedLen(outcome.segs)),
                         ToolResultLimit(toolName))

\* variant: the catch block of the tool call forgets to push a message
PushToolResult_CatchSilent(msgs, call, outcome) ==
    IF outcome.kind = "raised"
    THEN msgs
    ELSE Append(msgs, Msg("tool", ToolResultContent(call.name, outcome), <<>>,
                          call.id))

\* variant: an error envelope is logged but no message is pushed for it
PushToolResult_ErrorSilent(msgs, call, outcome) ==
    IF outcome.kind = "envelope" /\ outcome.isError
    THEN msgs
    ELSE Append(msgs, Msg("tool", ToolResultContent(call.name, outcome), <<>>,
                          call.id))

\* variant: the tool-result message is put in front of the last message
PushToolResult_BeforeLast(msgs, call, outcome) ==
    SubSeq(msgs, 1, Len(msgs) - 1)
    \o << Msg("tool", ToolResultContent(call.name, outcome), <<>>, call.id) >>
    \o << msgs[Len(msgs)] >>

\* messages.push({role: "tool", tool_call_id: toolCall.id, content})
PushToolResult(msgs, call, outcome) ==
    Append(msgs, Msg("tool", ToolResultContent(call.name, outcome), <<>>,
                     call.id))

---------------------------------------------------------------------------
(* The environment: what the reasoning service and the host may do *)

Rich == iteration < RichRounds

FinalBodies ==
    { <<>>, <<"x">>, <<"{", "}">>, <<"x", "{", "}", "x">>, <<"{", "x", "}">>,
      <<"{", "}", "{", "}">>, <<"}", "{">> }
FinalContents == {NullContent} \cup {BodyText(b) : b \in FinalBodies}

FinalContentsNow == IF Rich THEN FinalContents ELSE {NullContent}

CallKinds == [name : ToolNames, argsOk : BOOLEAN]
DefaultCall == [name |-> ListPullRequests, argsOk |-> TRUE]

CallCost(kind) == IF kind.name = ListPullRequests THEN 0 ELSE 1
RECURSIVE CallsCost(_)
CallsCost(kinds) ==
    IF kinds = <<>> THEN 0 ELSE CallCost(Head(kinds)) + CallsCost(Tail(kinds))

CallSeqs ==
    IF Rich
    THEN {kinds \in UNION {[1..n -> CallKinds] : n \in 1..MaxCalls} :
             deviations + CallsCost(kinds) <= MaxDeviations}
    ELSE {<<DefaultCall>>}

DefaultHost == HostReturns(<<SmallLen>>)
HostCost(host) == IF client = "open" /\ host # DefaultHost THEN 1 ELSE 0

\* with a client object whose transport is not connected the SDK rejects
HostBehaviours ==
    IF client = "open"
    THEN IF Rich /\ deviations < MaxDeviations
         THEN {DefaultHost, HostReturns(<<HugeLen>>), HostThrows(ShortErrLen)}
         ELSE {DefaultHost}
    ELSE {HostThrows(ShortErrLen)}

WithIds(kinds, first) ==
    [i \in 1..Len(kinds) |->
        [id |-> first + i - 1, name |-> kinds[i].name,
         argsOk |-> kinds[i].argsOk]]

NoCall == [id |-> 0, kind |-> "none", isError |-> FALSE,
           content |-> NullContent]
NoResponse == [kind |-> "pending", content |-> NullContent, calls |-> <<>>]

---------------------------------------------------------------------------
(* Repository discovery: the activity check of one repository *)

\* Timestamps are integers; NoTime is a timestamp that is null or missing
NoTime == -1
StartDate == 1
EndDate == 3

\* variant: the bounds of the timeframe are exclusive
isWithinTimeframe_Exclusive(date, startDate, endDate) ==
    date # NoTime /\ date > startDate /\ date < endDate

\* isWithinTimeframe: if (!date) return false; prDate >= start && <= end
isWithinTimeframe(date, startDate, endDate) ==
    date # NoTime /\ date >= startDate /\ date <= endDate

\* Items of a pull-request page: an object with its two timestamps, or null
PullRequest(mergedAt, closedAt) ==
    [isNull |-> FALSE, merged_at |-> mergedAt, closed_at |-> closedAt]
NullPR == [isNull |-> TRUE, merged_at |-> NoTime, closed_at |-> NoTime]

\* const prDate = mergedAt || closedAt
prDate(pr) == IF pr.merged_at # NoTime THEN pr.merged_at ELSE pr.closed_at

\* the for-loop over prs that increments prCount
RECURSIVE CountInTimeframe(_, _, _)
CountInTimeframe(prs, startDate, endDate) ==
    IF prs = <<>> THEN 0
    ELSE (IF isWithinTimeframe(prDate(Head(prs)), startDate, endDate)
          THEN 1 ELSE 0)
         + CountInTimeframe(Tail(prs), startDate, endDate)

\* What the host sends back as content: a JSON list of items, or a text
\* that is not JSON
JsonPage(items) == [kind |-> "json", items |-> items]
TextPage == [kind |-> "text", items |-> <<>>]

ListPullRequestsTool == <<"list", "pull", "requests">>
SearchRepositoriesTool == <<"search", "repositories">>

\* The content that reaches the caller of callTool: the page when the host
\* returned a result without error flag, the text of the error otherwise
ContentOf(host, page) ==
    IF host.kind = "returns" /\ ~host.isError THEN page ELSE TextPage

\* variant: every repository that was checked counts as active
HasActivity_Always(prCount) == prCount >= 0

\* hasActivity: prCount > 0
HasActivity(prCount) == prCount > 0

NoActivity == [hasActivity |-> FALSE, prCount |-> 0]

\* checkRepoHasPRsInTimeframe: the listing is requested through callTool;
\* content that does not parse gives no pull requests; an error thrown by
\* callTool or by the loop over the items (a null item) is caught
checkRepoHasPRsInTimeframe(cl, host, page, startDate, endDate) ==
    IF callTool(cl, ListPullRequestsTool, host).kind = "raised"
    THEN NoActivity
    ELSE IF ContentOf(host, page).kind # "json"
    THEN NoActivity
    ELSE IF \E i \in 1..Len(ContentOf(host, page).items) :
               ContentOf(host, page).items[i].isNull
    THEN NoActivity
    ELSE [hasActivity |->
              HasActivity(CountInTimeframe(ContentOf(host, page).items,
                                           startDate, endDate)),
          prCount |->
              CountInTimeframe(ContentOf(host, page).items,
                               startDate, endDate)]

---------------------------------------------------------------------------
(* Repository discovery: candidates from the teams configuration *)

perPage == 100

\* Repository names and prefixes are sequences of characters
StartsWith(name, prefix) ==
    Len(prefix) <= Len(name) /\ SubSeq(name, 1, Len(prefix)) = prefix

\* an item of a search page that is null instead of a repository object
NullItem == <<"null">>

\* A list of repositories with the set of the keys already seen
NoRepos == [repos |-> <<>>, seen |-> {}]

\* variant: the repository is pushed without a look at the keys seen
AddRepo_Unchecked(c, name) ==
    [repos |-> Append(c.repos, name), seen |-> c.seen \cup {name}]

\* if (!seenRepos.has(key)) { seenRepos.add(key); repos.push(...) }
AddRepo(c, name) ==
    IF name \in c.seen THEN c
    ELSE [repos |-> Append(c.repos, name), seen |-> c.seen \cup {name}]

RECURSIVE AddAll(_, _)
AddAll(c, names) ==
    IF names = <<>> THEN c ELSE AddAll(AddRepo(c, Head(names)), Tail(names))

\* the for-loop over the repos of a search page: reading the name of a
\* null item throws, so the items before the first null item are the ones
\* the loop has handled
FirstNull(items) ==
    IF \E k \in 1..Len(items) : items[k] = NullItem
    THEN CHOOSE k \in 1..Len(items) :
            /\ items[k] = NullItem
            /\ \A j \in 1..(k - 1) : items[j] # NullItem
    ELSE Len(items) + 1

MatchingNames(items, prefix) ==
    SelectSeq(SubSeq(items, 1, FirstNull(items) - 1),
              LAMBDA name : StartsWith(name, prefix))

\* the names that start with the prefix are added; the repositories added
\* before a throw stay in the list
AddMatching(c, items, prefix) ==
    [found |-> AddAll(c, MatchingNames(items, prefix)),
     threw |-> FirstNull(items) <= Len(items)]

\* variant: another page is requested after every page with results
HasMore_AnyResults(n) == n > 0

\* hasMore = repos.length === perPage
HasMore(n) == n = perPage

TeamOf(d) == d.teams[d.t]

\* a request of a search page and what came of it
SearchEntry(d, count, outcome) ==
    [t |-> d.t, p |-> d.p, page |-> d.page, perPage |-> perPage,
     count |-> count, outcome |-> outcome]
Logged(d, count, outcome) ==
    [d EXCEPT !.searches = Append(@, SearchEntry(d, count, outcome))]

\* findReposByPrefixes has returned, or the team has no prefixes: the
\* repositories found are added to the candidates; then the next team, or,
\* after the last team, the loop over the candidates
FinishTeam(d) ==
    IF d.t < Len(d.teams)
    THEN [d EXCEPT !.candidates = AddAll(@, d.found.repos),
                   !.found = NoRepos, !.t = @ + 1, !.pc = "team"]
    ELSE IF AddAll(d.candidates, d.found.repos).repos = <<>>
    THEN [d EXCEPT !.candidates = AddAll(@, d.found.repos),
                   !.found = NoRepos, !.pc = "done"]
    ELSE [d EXCEPT !.candidates = AddAll(@, d.found.repos),
                   !.found = NoRepos, !.pc = "check", !.i = 1]

\* the while-loop of a prefix has ended: the next prefix of the team, or
\* the end of findReposByPrefixes
NextPrefix(d) ==
    IF d.p < Len(TeamOf(d).prefixes)
    THEN [d EXCEPT !.p = @ + 1, !.page = 1]
    ELSE FinishTeam(d)

\* one team of extractReposFromConfig, up to its first search request
BeginTeam(d) ==
    IF TeamOf(d).prefixes # <<>>
    THEN [d EXCEPT !.candidates = AddAll(@, TeamOf(d).repos),
                   !.found = NoRepos, !.pc = "search", !.p = 1, !.page = 1]
    ELSE FinishTeam([d EXCEPT !.candidates = AddAll(@, TeamOf(d).repos)])

ItemsOf(host, page) ==
    IF ContentOf(host, page).kind = "json"
    THEN ContentOf(host, page).items
    ELSE <<>>

\* one pass of the while-loop of findReposByPrefixes. An error thrown by
\* callTool or by the loop over the items leaves the try block that holds
\* the loop over all prefixes, so findReposByPrefixes returns at once
SearchPage(d, host, page) ==
    IF callTool(d.cl, SearchRepositoriesTool, host).kind = "raised"
    THEN FinishTeam(Logged(d, 0, "raised"))
    ELSE IF callTool(d.cl, SearchRepositoriesTool, host).isError
    THEN NextPrefix(Logged(d, 0, "error"))
    ELSE IF ItemsOf(host, page) = <<>>
    THEN NextPrefix(Logged(d, 0, "empty"))
    ELSE IF AddMatching(d.found, ItemsOf(host, page),
                        TeamOf(d).prefixes[d.p]).threw
    THEN FinishTeam(
            [Logged(d, Len(ItemsOf(host, page)), "raised") EXCEPT
                !.found = AddMatching(d.found, ItemsOf(host, page),
                                      TeamOf(d).prefixes[d.p]).found])
    ELSE IF HasMore(Len(ItemsOf(host, page)))
    THEN [Logged(d, Len(ItemsOf(host, page)), "page") EXCEPT
             !.found = AddMatching(d.found, ItemsOf(host, page),
                                   TeamOf(d).prefixes[d.p]).found,
             !.page = @ + 1]
    ELSE NextPrefix(
            [Logged(d, Len(ItemsOf(host, page)), "page") EXCEPT
                !.found = AddMatching(d.found, ItemsOf(host, page),
                                      TeamOf(d).prefixes[d.p]).found])

\* one pass of the for-loop of discoverReposWithActivity
CheckCandidate(d, host, page) ==
    [d EXCEPT
        !.active =
            IF checkRepoHasPRsInTimeframe(d.cl, host, page,
                                          StartDate, EndDate).hasActivity
            THEN Append(@, [owner |-> Owner,
                            repo |-> d.candidates.repos[d.i],
                            prCount |->
                                checkRepoHasPRsInTimeframe(
                                    d.cl, host, page,
                                    StartDate, EndDate).prCount])
            ELSE @,
        !.checks =
            Append(@, [repo |-> d.candidates.repos[d.i],
                       prCount |->
                           checkRepoHasPRsInTimeframe(
                               d.cl, host, page, StartDate, EndDate).prCount]),
        !.i = @ + 1,
        !.pc = IF d.i < Len(d.candidates.repos) THEN "check" ELSE "done"]

---------------------------------------------------------------------------
(* Configuration and the main program *)

EnvPrefix == <<"e", "n", "v", ":">>
SecretValue == <<"t", "k">>
EnvSet == <<"S">>          \* a variable of the environment with a value
EnvEmpty == <<"E">>        \* a variable set to the empty string
EnvUnset == <<"U">>        \* a variable that is not set

\* process.env[name]
ProcessEnv(name) ==
    IF name = EnvSet THEN SecretValue
    ELSE IF name = EnvEmpty THEN <<>>
    ELSE Undefined

Raised == [raised |-> TRUE, value |-> <<>>]
Resolved(value) == [raised |-> FALSE, value |-> value]

\* variant: only a variable that is not set is refused
resolveEnvVar_EmptyAccepted(value) ==
    IF StartsWith(value, EnvPrefix)
    THEN IF ProcessEnv(SubSeq(value, 5, Len(value))) = Undefined
         THEN Raised
         ELSE Resolved(ProcessEnv(SubSeq(value, 5, Len(value))))
    ELSE Resolved(value)

\* value.startsWith('env:') ? process.env[value.substring(4)] : value;
\* if (!envValue) throw
resolveEnvVar(value) ==
    IF StartsWith(value, EnvPrefix)
    THEN IF ProcessEnv(SubSeq(value, 5, Len(value))) \in {Undefined, <<>>}
         THEN Raised
         ELSE Resolved(ProcessEnv(SubSeq(value, 5, Len(value))))
    ELSE Resolved(value)

NoConfig == [raised |-> TRUE, token |-> <<>>, apiKey |-> <<>>]

\* loadConfig: the file is read, parsed and validated, the token and then
\* the key are resolved, an empty token is refused
loadConfig(file) ==
    IF file.kind # "ok" THEN NoConfig
    ELSE IF resolveEnvVar(file.token).raised THEN NoConfig
    ELSE IF resolveEnvVar(file.apiKey).raised THEN NoConfig
    ELSE IF resolveEnvVar(file.token).value = <<>> THEN NoConfig
    ELSE [raised |-> FALSE,
          token |-> resolveEnvVar(file.token).value,
          apiKey |-> resolveEnvVar(file.apiKey).value]

\* variant: the process ends with status 0 whatever happened
ExitStatus_AlwaysZero(raised) == 0

\* process.exit(1) in the catch of main, status 0 otherwise
ExitStatus(raised) == IF raised THEN 1 ELSE 0

\* the catch of main: the error is printed, process.exit(1)
Fatal(m, failure) ==
    [m EXCEPT !.pc = "exited", !.failure = failure,
              !.exit = ExitStatus(TRUE)]

\* await mcpClient.disconnect(), then the end of the process; an error of
\* close() goes to the catch of main
Leave(m, closeOk) ==
    [m EXCEPT !.pc = "exited",
              !.cl = disconnect(m.cl, closeOk).client,
              !.closeCalls = @ + disconnect(m.cl, closeOk).closeCalls,
              !.failure = IF disconnect(m.cl, closeOk).raised
                          THEN "disconnect" ELSE "none",
              !.exit = ExitStatus(disconnect(m.cl, closeOk).raised)]

\* variant: the loop goes on to the next repository without waiting for
\* the conversation it started
StartRepo_NotAwaited(m) ==
    [m EXCEPT !.inFlight = @ \cup {m.i}, !.requests = @ + 1, !.i = @ + 1]

\* await openaiAgent.summarizeRepo(...): the loop waits for the conversation
StartRepo(m) ==
    [m EXCEPT !.inFlight = @ \cup {m.i}, !.requests = @ + 1,
              !.pc = "conversation"]

\* the conversation of repository i is over: the next repository, or the
\* code after the loop
NextRepo(m) ==
    [m EXCEPT !.inFlight = @ \ {m.i}, !.calls = 0, !.i = @ + 1,
              !.pc = IF m.i < Len(m.repos) THEN "summarize" ELSE "collected"]

\* variant: an error of one repository ends the run
AfterRepoError_Fatal(m) == Fatal(m, "summarize")

\* catch (error) { console.error(...) } inside the loop
AfterRepoError(m) == NextRepo(m)

Attempted(m, outcome) ==
    [m EXCEPT !.attempts = Append(@, [repo |-> m.repos[m.i],
                                      outcome |-> outcome])]

\* summarizeRepo has returned a summary or raised
EndRepo(m, outcome) ==
    IF outcome = "summary"
    THEN NextRepo([Attempted(m, outcome) EXCEPT
                      !.summaries = Append(@, m.repos[m.i])])
    ELSE AfterRepoError(Attempted(m, outcome))

\* the unit variables while no operation is exercised alone
NoTruncation == [stage |-> "idle", content |-> <<>>, maxTokens |-> 0,
                 once |-> <<>>, twice |-> <<>>]
NoExtraction == [stage |-> "idle", pre |-> <<>>, payload |-> <<>>,
                 post |-> <<>>, out |-> NoResult]
NoListing == [stage |-> "idle", cl |-> "null", host |-> DefaultHost,
              page |-> TextPage, out |-> NoActivity]
NoDiscovery ==
    [pc |-> "idle", cl |-> "null", teams |-> <<>>, t |-> 0, p |-> 0,
     page |-> 0,
     found |-> NoRepos, candidates |-> NoRepos, i |-> 0, active |-> <<>>,
     searches |-> <<>>, checks |-> <<>>, faults |-> 0]
NoMain ==
    [pc |-> "idle", file |-> [kind |-> "missing", token |-> <<>>,
                              apiKey |-> <<>>],
     config |-> NoConfig, cl |-> "null", repos |-> <<>>, i |-> 0,
     summaries |-> <<>>, attempts |-> <<>>, inFlight |-> {}, invoking |-> 0,
     calls |-> 0, connects |-> 0, requests |-> 0, closeCalls |-> 0,
     written |-> FALSE, at |-> "load", failure |-> "none", exit |-> -1]
NoToolCall ==
    [stage |-> "idle", cl |-> "null", name |-> ListPullRequests,
     host |-> DefaultHost, outcome |-> callTool("null", ListPullRequests,
                                                DefaultHost),
     content |-> NullContent]
NoMapping ==
    [stage |-> "idle", name |-> <<>>, args |-> <<>>,
     out |-> Mapped(<<>>, <<>>, <<>>)]
NoGrouping ==
    [stage |-> "idle", summaries |-> <<>>, teams |-> <<>>, grouped |-> <<>>]
NoHost == [kind |-> "none", segs |-> <<>>, msgLen |-> 0, isError |-> FALSE]
NoOutcome == [kind |-> "none", isError |-> FALSE, segs |-> <<>>, msgLen |-> 0]
NoOperation == [op |-> "none", raised |-> FALSE, before |-> "null",
                contacts |-> 0, host |-> NoHost, outcome |-> NoOutcome]
NoAdapterUse == [stage |-> "idle", ops |-> 0, connectCalls |-> 0,
                 connects |-> 0, closes |-> 0, last |-> NoOperation]

---------------------------------------------------------------------------
(* State machine *)

\* the state after construction of the adapter and the agent
AgentInit ==
    /\ client = "null"
    /\ deviations = 0
    /\ pc = "idle"
    /\ repo = "api"
    /\ messages = <<>>
    /\ iteration = 0
    /\ pending = <<>>
    /\ idx = 0
    /\ result = NoResult
    /\ error = "none"
    /\ lastResponse = NoResponse
    /\ lastCall = NoCall
    /\ requests = 0
    /\ toolInvocations = 0
    /\ hostCalls = 0
    /\ nextId = 1

Init ==
    /\ AgentInit
    /\ trunc = NoTruncation
    /\ extract = NoExtraction
    /\ adapter = NoAdapterUse
    /\ disc = NoDiscovery
    /\ listing = NoListing
    /\ main = NoMain
    /\ toolres = NoToolCall
    /\ mapping = NoMapping
    /\ grouping = NoGrouping

\* connect() is called before summarizeRepo starts; disconnect() also by
\* another task while summarizeRepo is suspended in a tool round
BeforeRun == pc = "idle"
DuringRound == pc = "dispatch" /\ Rich /\ deviations < MaxDeviations

AdapterCost == IF pc = "idle" THEN 0 ELSE 1

\* GitHubMCPClient.connect: this.client is assigned before the transport
\* is connected, so a connect() that raises leaves a client object behind
Connect(ok) ==
    /\ UNCHANGED unitVars
    /\ BeforeRun
    /\ client' = IF ok THEN "open" ELSE "failed"
    /\ deviations' = deviations + AdapterCost
    /\ UNCHANGED agentVars

\* GitHubMCPClient.disconnect
Disconnect ==
    /\ UNCHANGED unitVars
    /\ BeforeRun \/ DuringRound
    /\ client' = disconnect(client, TRUE).client
    /\ deviations' = deviations + AdapterCost
    /\ UNCHANGED agentVars

\* summarizeRepo is entered: prompts are built, the history is initialised
Start(r) ==
    /\ UNCHANGED unitVars
    /\ pc = "idle"
    /\ repo' = r
    /\ messages' = InitialMessages(Owner, r)
    /\ iteration' = 0
    /\ pc' = "head"
    /\ UNCHANGED <<client, deviations, pending, idx, result, error, lastResponse, lastCall, requests, toolInvocations,
                   hostCalls, nextId>>

\* loop head, iteration < maxIterations: budget the history, send it
SendRequest ==
    /\ UNCHANGED unitVars
    /\ pc = "head"
    /\ LoopContinues(iteration)
    /\ messages' = budgetConversation(messages)
    /\ requests' = requests + 1
    /\ lastResponse' = NoResponse
    /\ pc' = "await"
    /\ UNCHANGED <<client, deviations, repo, iteration, pending, idx, result,
                   error, lastCall, toolInvocations, hostCalls, nextId>>

\* loop head, the cap is reached: the terminal exhausted error
Exhausted ==
    /\ UNCHANGED unitVars
    /\ pc = "head"
    /\ ~LoopContinues(iteration)
    /\ pc' = "raised"
    /\ error' = "Max iterations reached while processing repo summary"
    /\ UNCHANGED <<client, deviations, repo, messages, iteration, pending,
                   idx, result, lastResponse, lastCall,
                   requests, toolInvocations, hostCalls, nextId>>

\* variant: the check for a missing message is left out
HasMessage_Unchecked(resp) == TRUE

\* const message = response.choices[0]?.message; if (!message) throw ...
HasMessage(resp) == resp.kind = "message"

\* the request to the reasoning service rejects
ServiceFails ==
    /\ UNCHANGED unitVars
    /\ pc = "await"
    /\ Rich
    /\ lastResponse' = [kind |-> "failed", content |-> NullContent,
                        calls |-> <<>>]
    /\ pc' = "raised"
    /\ error' = "reasoning service failure"
    /\ UNCHANGED <<client, deviations, repo, messages, iteration, pending,
                   idx, result, lastCall, requests,
                   toolInvocations, hostCalls, nextId>>

\* a response arrives. Without a message: the terminal error. Otherwise
\* the message is pushed; without tool calls the summary is parsed and
\* returned, otherwise the for-loop over tool_calls begins
Receive(resp) ==
    /\ UNCHANGED unitVars
    /\ pc = "await"
    /\ lastResponse' = resp
    /\ IF ~HasMessage(resp)
       THEN /\ pc' = "raised"
            /\ error' = "No response from OpenAI"
            /\ UNCHANGED <<messages, nextId, deviations, pending, idx,
                           iteration, result>>
       ELSE /\ messages' = Append(messages,
                              Msg("assistant", resp.content, resp.calls, 0))
            /\ nextId' = nextId + Len(resp.calls)
            /\ deviations' = deviations + CallsCost(resp.calls)
            /\ error' = error
            /\ IF NoToolCalls(Msg("assistant", resp.content, resp.calls, 0))
               THEN /\ result' = parseSummaryFromMessage(resp.content.body,
                                                         Owner, repo)
                    /\ pc' = "done"
                    /\ UNCHANGED <<pending, idx, iteration>>
               ELSE IF resp.calls = <<>>
               THEN /\ iteration' = iteration + 1
                    /\ pc' = "head"
                    /\ UNCHANGED <<pending, idx, result>>
               ELSE /\ pending' = resp.calls
                    /\ idx' = 1
                    /\ pc' = "dispatch"
                    /\ UNCHANGED <<result, iteration>>
    /\ UNCHANGED <<client, repo, lastCall, requests, toolInvocations,
                   hostCalls>>

NoMessage ==
    /\ Rich
    /\ Receive([kind |-> "none", content |-> NullContent, calls |-> <<>>])

RespondFinal ==
    \E content \in FinalContentsNow :
        Receive([kind |-> "message", content |-> content, calls |-> <<>>])

RespondToolCalls ==
    \E kinds \in CallSeqs :
        Receive([kind |-> "message", content |-> NullContent,
                 calls |-> WithIds(kinds, nextId)])

\* JSON.parse(toolCall.function.arguments) throws: outside the try block
DispatchMalformed ==
    /\ UNCHANGED unitVars
    /\ pc = "dispatch"
    /\ ~pending[idx].argsOk
    /\ pc' = "raised"
    /\ error' = "SyntaxError"
    /\ UNCHANGED <<client, deviations, repo, messages, iteration, pending,
                   idx, result, lastResponse, lastCall,
                   requests, toolInvocations, hostCalls, nextId>>

\* one pass of the for-loop body for a call whose arguments parse
DispatchCall(host) ==
    /\ UNCHANGED unitVars
    /\ pc = "dispatch"
    /\ pending[idx].argsOk
    /\ toolInvocations' = toolInvocations + 1
    /\ deviations' = deviations + HostCost(host)
    /\ hostCalls' = IF client = "null" THEN hostCalls ELSE hostCalls + 1
    /\ lastCall' =
          [id |-> pending[idx].id,
           kind |-> callTool(client, pending[idx].name, host).kind,
           isError |-> callTool(client, pending[idx].name, host).isError,
           content |-> ToolResultContent(pending[idx].name,
                          callTool(client, pending[idx].name, host))]
    /\ messages' = PushToolResult(messages, pending[idx],
                                  callTool(client, pending[idx].name, host))
    /\ IF idx < Len(pending)
       THEN /\ idx' = idx + 1
            /\ UNCHANGED <<pc, iteration>>
       ELSE /\ idx' = idx + 1
            /\ iteration' = iteration + 1
            /\ pc' = "head"
    /\ UNCHANGED <<client, repo, pending, result, error,
                   lastResponse, requests, nextId>>

Dispatch ==
    \E host \in HostBehaviours : DispatchCall(host)

Next ==
    \/ \E ok \in BOOLEAN : Connect(ok)
    \/ Disconnect
    \/ \E r \in Repos : Start(r)
    \/ SendRequest
    \/ Exhausted
    \/ NoMessage
    \/ ServiceFails
    \/ RespondFinal
    \/ RespondToolCalls
    \/ DispatchMalformed
    \/ Dispatch

Spec == Init /\ [][Next]_vars

TypeOK ==
    /\ client \in {"null", "open", "failed"}
    /\ pc \in {"idle", "head", "await", "dispatch", "done", "raised"}
    /\ iteration \in 0..maxIterations

---------------------------------------------------------------------------
(* truncateContent alone: it is applied to a text, then to its own result *)

MaxTextLen == 6        \* characters of a text handed to truncateContent
MaxBudget == 2         \* largest maxTokens handed to truncateContent

Chars == {"a", "b"}
Texts == UNION {[1..n -> Chars] : n \in 0..MaxTextLen}
Budgets == 0..MaxBudget

TruncInit ==
    /\ AgentInit
    /\ trunc \in [stage : {"input"}, content : Texts, maxTokens : Budgets,
                  once : {<<>>}, twice : {<<>>}]
    /\ extract = NoExtraction
    /\ adapter = NoAdapterUse
    /\ disc = NoDiscovery
    /\ listing = NoListing
    /\ main = NoMain
    /\ toolres = NoToolCall
    /\ mapping = NoMapping
    /\ grouping = NoGrouping

\* truncateContent(content, maxTokens)
TruncateOnce ==
    /\ trunc.stage = "input"
    /\ trunc' = [trunc EXCEPT !.stage = "once",
                    !.once = truncateChars(trunc.content, trunc.maxTokens)]
    /\ UNCHANGED <<client, deviations, agentVars, extract, adapter, disc, listing, main, toolres, mapping,
                grouping>>

\* truncateContent(truncateContent(content, maxTokens), maxTokens)
TruncateAgain ==
    /\ trunc.stage = "once"
    /\ trunc' = [trunc EXCEPT !.stage = "twice",
                    !.twice = truncateChars(trunc.once, trunc.maxTokens)]
    /\ UNCHANGED <<client, deviations, agentVars, extract, adapter, disc, listing, main, toolres, mapping,
                grouping>>

TruncNext == TruncateOnce \/ TruncateAgain

TruncSpec == TruncInit /\ [][TruncNext]_vars

---------------------------------------------------------------------------
(* parseSummaryFromMessage alone: it is applied to a final text made of a *)
(* text in front, a candidate payload and a text behind                    *)

FullPayload == <<"{", SummaryX, ",", NoPulls, ",", NoBreaking, "}">>

Prefixes == { <<>>, <<"x">>, <<"}">>, <<"x", "}", "x">>, <<"{">> }
Payloads ==
    { <<>>, <<"{", "}">>, <<"{", SummaryX, "}">>, FullPayload,
      <<"{", SummaryX, ",", OnePull, ",", OneBreaking, "}">>,
      <<"{", OnePull, "}">>, <<"{", OneBreaking, ",", SummaryX, "}">>,
      <<"{", NoPulls, ",", OnePull, "}">>,
      <<"{", "x", "}">>, <<"{", SummaryX, "x", "}">>,
      <<"{", SummaryX, ",", "}">>, <<"{", SummaryX>>,
      <<"{", PullsFive, "}">>, <<"{", PullsZero, ",", BreakingNull, "}">>,
      <<"{", SummaryX, ",", PullsText, ",", BreakingObject, "}">>,
      <<"{", OnePull, ",", BreakingObject, "}">> }
Suffixes ==
    { <<>>, <<"x">>, <<"{", "x", "}">>, <<"}">>, <<"{">>, <<"x", "{", "}">> }

ExtractText == extract.pre \o extract.payload \o extract.post

ExtractInit ==
    /\ AgentInit
    /\ trunc = NoTruncation
    /\ extract \in [stage : {"input"}, pre : Prefixes, payload : Payloads,
                    post : Suffixes, out : {NoResult}]
    /\ adapter = NoAdapterUse
    /\ disc = NoDiscovery
    /\ listing = NoListing
    /\ main = NoMain
    /\ toolres = NoToolCall
    /\ mapping = NoMapping
    /\ grouping = NoGrouping

\* parseSummaryFromMessage(content, owner, repo)
Extract ==
    /\ extract.stage = "input"
    /\ extract' = [extract EXCEPT !.stage = "done",
                      !.out = parseSummaryFromMessage(ExtractText, Owner,
                                                      "api")]
    /\ UNCHANGED <<client, deviations, agentVars, trunc, adapter, disc, listing, main, toolres, mapping,
                grouping>>

ExtractNext == Extract

ExtractSpec == ExtractInit /\ [][ExtractNext]_vars

---------------------------------------------------------------------------
(* GitHubMCPClient alone: connect, callTool and disconnect are called in  *)
(* any order on one adapter                                                *)

MaxAdapterOps == 4     \* calls made on the adapter

AdapterInit ==
    /\ AgentInit
    /\ trunc = NoTruncation
    /\ extract = NoExtraction
    /\ adapter = [NoAdapterUse EXCEPT !.stage = "use"]
    /\ disc = NoDiscovery
    /\ listing = NoListing
    /\ main = NoMain
    /\ toolres = NoToolCall
    /\ mapping = NoMapping
    /\ grouping = NoGrouping

AdapterReady == adapter.stage = "use" /\ adapter.ops < MaxAdapterOps

\* connect(): a new client object replaces this.client, then the
\* transport is connected, which succeeds or raises
AdapterConnect(ok) ==
    /\ AdapterReady
    /\ client' = IF ok THEN "open" ELSE "failed"
    /\ adapter' = [adapter EXCEPT
                      !.ops = @ + 1,
                      !.connectCalls = @ + 1,
                      !.connects = IF ok THEN @ + 1 ELSE @,
                      !.last = [NoOperation EXCEPT
                                   !.op = "connect", !.raised = ~ok,
                                   !.before = client, !.contacts = 1]]
    /\ UNCHANGED <<deviations, agentVars, trunc, extract, disc, listing, main, toolres, mapping,
                grouping>>

\* disconnect(); close() resolves or rejects
AdapterDisconnect(closeOk) ==
    /\ AdapterReady
    /\ client' = disconnect(client, closeOk).client
    /\ adapter' = [adapter EXCEPT
                      !.ops = @ + 1,
                      !.closes = @ + disconnect(client, closeOk).closed,
                      !.last = [NoOperation EXCEPT
                                   !.op = "disconnect",
                                   !.raised =
                                       disconnect(client, closeOk).raised,
                                   !.before = client,
                                   !.contacts =
                                       disconnect(client,
                                                  closeOk).closeCalls]]
    /\ UNCHANGED <<deviations, agentVars, trunc, extract, disc, listing, main, toolres, mapping,
                grouping>>

\* what the host may do with a call forwarded by this adapter
AdapterHostBehaviours ==
    IF client = "open"
    THEN {DefaultHost, HostReportsError(<<ShortErrLen>>),
          HostThrows(ShortErrLen)}
    ELSE {HostThrows(ShortErrLen)}

\* callTool(toolName, args)
AdapterCallTool(toolName, host) ==
    /\ AdapterReady
    /\ adapter' = [adapter EXCEPT
                      !.ops = @ + 1,
                      !.last = [NoOperation EXCEPT
                                   !.op = "callTool",
                                   !.raised =
                                       callTool(client, toolName, host).kind
                                          = "raised",
                                   !.before = client,
                                   !.contacts =
                                       IF client = "null" THEN 0 ELSE 1,
                                   !.host = host,
                                   !.outcome =
                                       callTool(client, toolName, host)]]
    /\ UNCHANGED <<client, deviations, agentVars, trunc, extract, disc, listing, main, toolres, mapping,
                grouping>>

AdapterNext ==
    \/ \E ok \in BOOLEAN : AdapterConnect(ok)
    \/ \E closeOk \in BOOLEAN : AdapterDisconnect(closeOk)
    \/ \E toolName \in ToolNames, host \in AdapterHostBehaviours :
          AdapterCallTool(toolName, host)

AdapterSpec == AdapterInit /\ [][AdapterNext]_vars

---------------------------------------------------------------------------
(* checkRepoHasPRsInTimeframe alone: it is applied to one page of closed  *)
(* pull requests, or to a listing that fails                               *)

MaxTime == 4           \* latest timestamp of a pull request
MaxPRs == 2            \* pull requests on a page

Times == {NoTime} \cup 0..MaxTime
PullRequests == {PullRequest(m, c) : m \in Times, c \in Times}
PullRequestPages ==
    {JsonPage(prs) : prs \in UNION {[1..n -> PullRequests] : n \in 0..MaxPRs}}

OnePullRequest == JsonPage(<<PullRequest(StartDate, StartDate)>>)

ListingInputs ==
    [stage : {"input"}, cl : {"open"}, host : {DefaultHost},
     page : PullRequestPages \cup
            {TextPage, JsonPage(<<PullRequest(StartDate, StartDate), NullPR>>)},
     out : {NoActivity}]
    \cup
    [stage : {"input"}, cl : {"open", "failed", "null"},
     host : {DefaultHost, HostReportsError(<<ShortErrLen>>),
             HostThrows(ShortErrLen)},
     page : {OnePullRequest}, out : {NoActivity}]

ListingInit ==
    /\ AgentInit
    /\ trunc = NoTruncation
    /\ extract = NoExtraction
    /\ adapter = NoAdapterUse
    /\ disc = NoDiscovery
    /\ listing \in {l \in ListingInputs :
                       l.cl = "open" \/ l.host.kind = "throws"}
    /\ main = NoMain
    /\ toolres = NoToolCall
    /\ mapping = NoMapping
    /\ grouping = NoGrouping

\* checkRepoHasPRsInTimeframe(mcpClient, owner, repo, startDate, endDate)
CheckRepo ==
    /\ listing.stage = "input"
    /\ listing' = [listing EXCEPT
                      !.stage = "done",
                      !.out = checkRepoHasPRsInTimeframe(
                                  listing.cl, listing.host, listing.page,
                                  StartDate, EndDate)]
    /\ UNCHANGED <<client, deviations, agentVars, trunc, extract, adapter,
                   disc, main, toolres, mapping,
                grouping>>

ListingNext == CheckRepo

ListingSpec == ListingInit /\ [][ListingNext]_vars

---------------------------------------------------------------------------
(* discoverReposWithActivity: the teams of a configuration are gone       *)
(* through, their prefixes searched page by page, the candidates checked  *)

MaxFaults == 2         \* answers of the host other than the usual one

PrefixA == <<"a">>
PrefixB == <<"b">>
RepoA1 == <<"a", "1">>
RepoA2 == <<"a", "2">>
RepoB1 == <<"b", "1">>

Team(repos, prefixes) == [repos |-> repos, prefixes |-> prefixes]

TeamsConfigs ==
    { << Team(<<RepoA1, RepoB1>>, <<>>) >>,
      << Team(<<RepoA1, RepoA1>>, <<PrefixA>>) >>,
      << Team(<<>>, <<PrefixA, PrefixB>>) >>,
      << Team(<<RepoA1>>, <<>>), Team(<<RepoB1>>, <<PrefixA, PrefixB>>) >>,
      << Team(<<>>, <<PrefixA>>), Team(<<RepoA2>>, <<PrefixA>>) >> }

Answer(host, page) == [host |-> host, page |-> page]

\* a page of perPage results, two of which start with the prefix
FullPage(prefix) ==
    JsonPage([k \in 1..perPage |->
                 IF k = 1 THEN prefix \o <<"1">>
                 ELSE IF k = 2 THEN prefix \o <<"2">>
                 ELSE <<"x">> \o prefix])

UsualSearchAnswer(prefix) ==
    Answer(DefaultHost, JsonPage(<< prefix \o <<"1">> >>))

SearchAnswers(prefix) ==
    IF disc.cl = "open" /\ disc.faults < MaxFaults
    THEN {UsualSearchAnswer(prefix),
          Answer(HostThrows(ShortErrLen), TextPage),
          Answer(HostReportsError(<<ShortErrLen>>), TextPage),
          Answer(DefaultHost, JsonPage(<<>>)),
          Answer(DefaultHost,
                 JsonPage(<< prefix \o <<"2">>, <<"x">> \o prefix,
                             prefix \o <<"2">>, prefix \o <<"1">> >>)),
          Answer(DefaultHost, FullPage(prefix)),
          Answer(DefaultHost, JsonPage(<< prefix \o <<"2">>, NullItem >>))}
    ELSE IF disc.cl = "open"
    THEN {UsualSearchAnswer(prefix)}
    ELSE {Answer(HostThrows(ShortErrLen), TextPage)}

UsualListingAnswer == Answer(DefaultHost, OnePullRequest)

ListingAnswers ==
    IF disc.cl = "open" /\ disc.faults < MaxFaults
    THEN {UsualListingAnswer,
          Answer(HostThrows(ShortErrLen), TextPage),
          Answer(DefaultHost, JsonPage(<<>>)),
          Answer(DefaultHost,
                 JsonPage(<< PullRequest(StartDate, StartDate),
                             PullRequest(NoTime, EndDate) >>)),
          Answer(DefaultHost,
                 JsonPage(<< PullRequest(StartDate, StartDate), NullPR >>))}
    ELSE IF disc.cl = "open"
    THEN {UsualListingAnswer}
    ELSE {Answer(HostThrows(ShortErrLen), TextPage)}

FaultOf(answer, usual) == IF answer = usual THEN 0 ELSE 1

DiscInit ==
    /\ AgentInit
    /\ trunc = NoTruncation
    /\ extract = NoExtraction
    /\ adapter = NoAdapterUse
    /\ disc \in {[NoDiscovery EXCEPT !.pc = "team", !.cl = cl,
                                     !.teams = teams, !.t = 1] :
                    cl \in {"open", "failed", "null"},
                    teams \in TeamsConfigs}
    /\ listing = NoListing
    /\ main = NoMain
    /\ toolres = NoToolCall
    /\ mapping = NoMapping
    /\ grouping = NoGrouping

DiscUnchanged ==
    UNCHANGED <<client, deviations, agentVars, trunc, extract, adapter,
                listing, main, toolres, mapping,
                grouping>>

\* extractReposFromConfig: the explicit repos of the next team
DiscBeginTeam ==
    /\ disc.pc = "team"
    /\ disc' = BeginTeam(disc)
    /\ DiscUnchanged

\* findReposByPrefixes: a search page is requested and handled
DiscSearch ==
    /\ disc.pc = "search"
    /\ \E answer \in SearchAnswers(TeamOf(disc).prefixes[disc.p]) :
          disc' = [SearchPage(disc, answer.host, answer.page) EXCEPT
                      !.faults = @ + FaultOf(answer,
                                    IF disc.cl = "open"
                                    THEN UsualSearchAnswer(
                                            TeamOf(disc).prefixes[disc.p])
                                    ELSE answer)]
    /\ DiscUnchanged

\* discoverReposWithActivity: the next candidate is checked
DiscCheck ==
    /\ disc.pc = "check"
    /\ \E answer \in ListingAnswers :
          disc' = [CheckCandidate(disc, answer.host, answer.page) EXCEPT
                      !.faults = @ + FaultOf(answer,
                                    IF disc.cl = "open"
                                    THEN UsualListingAnswer ELSE answer)]
    /\ DiscUnchanged

DiscNext == DiscBeginTeam \/ DiscSearch \/ DiscCheck

DiscoverySpec == DiscInit /\ [][DiscNext]_vars

\* every request is answered and its continuation runs
DiscoveryLive == DiscoverySpec /\ WF_vars(DiscNext)

---------------------------------------------------------------------------
(* main: configuration, connection, discovery, one conversation per       *)
(* repository, the newsletter file, the end of the process                *)

MaxToolCalls == 2      \* tool invocations of one conversation

ConfigValues ==
    {SecretValue, <<>>, <<"e", "n", "v">>,
     EnvPrefix \o EnvSet, EnvPrefix \o EnvEmpty, EnvPrefix \o EnvUnset}

ConfigFiles ==
    {[kind |-> k, token |-> <<>>, apiKey |-> <<>>] :
        k \in {"missing", "not json", "invalid"}}
    \cup {[kind |-> "ok", token |-> t, apiKey |-> a] :
            t \in ConfigValues, a \in ConfigValues}

ActiveRepos == {<<>>, <<RepoA1>>, <<RepoA1, RepoB1>>}

SummarizeOutcomes ==
    {"summary", "No response from OpenAI",
     "Max iterations reached while processing repo summary",
     "SyntaxError", "reasoning service failure"}

MainInit ==
    /\ AgentInit
    /\ trunc = NoTruncation
    /\ extract = NoExtraction
    /\ adapter = NoAdapterUse
    /\ disc = NoDiscovery
    /\ listing = NoListing
    /\ main \in {[NoMain EXCEPT !.pc = "load", !.file = f] :
                    f \in ConfigFiles}
    /\ toolres = NoToolCall
    /\ mapping = NoMapping
    /\ grouping = NoGrouping

MainUnchanged ==
    UNCHANGED <<client, deviations, agentVars, trunc, extract, adapter,
                disc, listing, toolres, mapping, grouping>>

\* const config = loadConfig()
MainLoadConfig ==
    /\ main.pc = "load"
    /\ main' = IF loadConfig(main.file).raised
               THEN Fatal(main, "config")
               ELSE [main EXCEPT !.pc = "connect", !.at = "connect",
                                 !.config = loadConfig(main.file)]
    /\ MainUnchanged

\* new GitHubMCPClient(config.github.token); await mcpClient.connect()
MainConnect ==
    /\ main.pc = "connect"
    /\ \E ok \in BOOLEAN :
          main' = IF ok
                  THEN [main EXCEPT !.pc = "discover", !.at = "discover",
                                    !.cl = "open", !.connects = @ + 1]
                  ELSE Fatal([main EXCEPT !.cl = "failed",
                                          !.connects = @ + 1], "connect")
    /\ MainUnchanged

\* discoverReposWithActivity, and the end of the run without active
\* repositories
MainDiscover ==
    /\ main.pc = "discover"
    /\ \E repos \in ActiveRepos, closeOk \in BOOLEAN :
          main' = IF repos = <<>>
                  THEN Leave(main, closeOk)
                  ELSE [main EXCEPT !.pc = "summarize", !.at = "summarize",
                                    !.repos = repos, !.i = 1]
    /\ MainUnchanged

\* the loop over the active repositories calls summarizeRepo
MainStartRepo ==
    /\ main.pc = "summarize"
    /\ main.i <= Len(main.repos)
    /\ main' = StartRepo(main)
    /\ MainUnchanged

\* a tool call of the conversation is handed to the adapter
MainInvoke ==
    /\ main.pc = "conversation"
    /\ main.invoking = 0
    /\ main.calls < MaxToolCalls
    /\ main' = [main EXCEPT !.invoking = @ + 1, !.calls = @ + 1]
    /\ MainUnchanged

\* the adapter's answer to the pending invocation has arrived
MainToolReturn ==
    /\ main.pc = "conversation"
    /\ main.invoking > 0
    /\ main' = [main EXCEPT !.invoking = @ - 1]
    /\ MainUnchanged

\* summarizeRepo returns or raises, inside the try of the loop
MainEndRepo ==
    /\ main.pc = "conversation"
    /\ main.invoking = 0
    /\ \E outcome \in SummarizeOutcomes : main' = EndRepo(main, outcome)
    /\ MainUnchanged

\* after the loop: the end of the run without summaries, or the
\* newsletter is rendered and written and the adapter disconnected
MainFinish ==
    /\ main.pc = "collected"
    /\ \E writeOk \in BOOLEAN, closeOk \in BOOLEAN :
          main' = IF main.summaries = <<>>
                  THEN Leave([main EXCEPT !.at = "collected"], closeOk)
                  ELSE IF ~writeOk
                  THEN Fatal([main EXCEPT !.at = "write"], "write")
                  ELSE Leave([main EXCEPT !.at = "written",
                                          !.written = TRUE], closeOk)
    /\ MainUnchanged

MainNext ==
    \/ MainLoadConfig
    \/ MainConnect
    \/ MainDiscover
    \/ MainStartRepo
    \/ MainInvoke
    \/ MainToolReturn
    \/ MainEndRepo
    \/ MainFinish

MainSpec == MainInit /\ [][MainNext]_vars

---------------------------------------------------------------------------
(* One tool call of a round alone: the adapter is invoked for a tool name  *)
(* and the tool-result message of the call is built                        *)

CalledToolNames == ToolNames \cup {GetPullRequestFiles}

TightChars == MAX_TOOL_RESULT_TOKENS * CharsPerToken
LooseChars == MAX_TOOL_RESULT_TOKENS * 2 * CharsPerToken

\* the text segments of the host's answer, by their lengths; a segment of
\* length 0 is one without text
SegmentLists ==
    { <<>>, <<0>>, <<0, 0>>, <<SmallLen>>, <<SmallLen, 0>>,
      <<TightChars - 1>>, <<TightChars>>, <<TightChars + 1>>,
      <<LooseChars - 1>>, <<LooseChars>>, <<LooseChars + 1>>,
      <<TightChars, TightChars>>, <<HugeLen>> }

ToolCallHosts ==
    {HostReturns(segs) : segs \in SegmentLists}
    \cup {HostReportsError(<<ShortErrLen>>), HostReportsError(<<HugeLen>>)}
    \cup {HostThrows(ShortErrLen), HostThrows(HugeLen)}

ToolCallInit ==
    /\ AgentInit
    /\ trunc = NoTruncation
    /\ extract = NoExtraction
    /\ adapter = NoAdapterUse
    /\ disc = NoDiscovery
    /\ listing = NoListing
    /\ main = NoMain
    /\ toolres \in {[NoToolCall EXCEPT !.stage = "called", !.cl = cl,
                                       !.name = name, !.host = host] :
                       cl \in {"open", "failed", "null"},
                       name \in CalledToolNames,
                       host \in ToolCallHosts}
    /\ toolres.cl = "open" \/ toolres.host = HostThrows(ShortErrLen)
    /\ mapping = NoMapping
    /\ grouping = NoGrouping

\* the body of the for-loop over message.tool_calls for one call
PushOneResult ==
    /\ toolres.stage = "called"
    /\ toolres' = [toolres EXCEPT
                      !.stage = "pushed",
                      !.outcome = callTool(toolres.cl, toolres.name,
                                           toolres.host),
                      !.content = ToolResultContent(toolres.name,
                                      callTool(toolres.cl, toolres.name,
                                               toolres.host))]
    /\ UNCHANGED <<client, deviations, agentVars, trunc, extract, adapter,
                   disc, listing, main, mapping, grouping>>

ToolCallNext == PushOneResult

ToolCallSpec == ToolCallInit /\ [][ToolCallNext]_vars

---------------------------------------------------------------------------
(* groupReposByTeam: the teams of a configuration are the members of the  *)
(* object, in the order the file gives them; a group list is a function   *)
(* from the names of its groups                                           *)

NamedTeam(name, team) ==
    [name |-> name, repos |-> team.repos, prefixes |-> team.prefixes]

\* a member name that is a canonical array index
IsIndexName(name) == name \in {"7"}

IsIndexTeam(team) == IsIndexName(team.name)
IsNamedTeam(team) == ~IsIndexName(team.name)

\* Object.keys(teamsConfig): the index names first, then the others in the
\* order of insertion
ObjectKeys(teamsConfig) ==
    LET ordered == SelectSeq(teamsConfig, IsIndexTeam)
                   \o SelectSeq(teamsConfig, IsNamedTeam)
    IN [k \in 1..Len(ordered) |-> ordered[k].name]

\* teamsConfig[teamName]
TeamNamed(teamsConfig, teamName) ==
    teamsConfig[CHOOSE k \in 1..Len(teamsConfig) :
                    teamsConfig[k].name = teamName]

\* matchedTeam is null (no name) or a name; "" is not truthy
NoTeam == <<>>
Truthy(matchedTeam) == matchedTeam # NoTeam /\ matchedTeam[1] # ""

HasRepo(teamConfig, repoName) ==
    \E k \in 1..Len(teamConfig.repos) : teamConfig.repos[k] = repoName

HasPrefixOf(teamConfig, repoName) ==
    \E k \in 1..Len(teamConfig.prefixes) :
        StartsWith(repoName, teamConfig.prefixes[k])

\* the loop over the team names from the k-th on
RECURSIVE MatchFrom(_, _, _, _, _)
MatchFrom(repoName, teamsConfig, teamNames, k, matchedTeam) ==
    IF k > Len(teamNames) THEN matchedTeam
    ELSE IF HasRepo(TeamNamed(teamsConfig, teamNames[k]), repoName)
    THEN <<teamNames[k]>>
    ELSE IF HasPrefixOf(TeamNamed(teamsConfig, teamNames[k]), repoName)
    THEN IF Truthy(<<teamNames[k]>>)
         THEN <<teamNames[k]>>
         ELSE MatchFrom(repoName, teamsConfig, teamNames, k + 1,
                        <<teamNames[k]>>)
    ELSE MatchFrom(repoName, teamsConfig, teamNames, k + 1, matchedTeam)

\* matchedTeam || 'Unassigned'
AssignedTeam(repoName, teamsConfig) ==
    LET matchedTeam == MatchFrom(repoName, teamsConfig,
                                 ObjectKeys(teamsConfig), 1, NoTeam)
    IN IF Truthy(matchedTeam) THEN matchedTeam[1] ELSE "Unassigned"

\* grouped[assignedTeam].push(summary), the list made when it is missing
Pushed(grouped, assignedTeam, summary) ==
    [g \in DOMAIN grouped \cup {assignedTeam} |->
        IF g = assignedTeam
        THEN Append(IF g \in DOMAIN grouped THEN grouped[g] ELSE <<>>,
                    summary)
        ELSE grouped[g]]

\* the loop over the summaries from the i-th on
RECURSIVE GroupFrom(_, _, _, _)
GroupFrom(repoSummaries, teamsConfig, i, grouped) ==
    IF i > Len(repoSummaries) THEN grouped
    ELSE GroupFrom(repoSummaries, teamsConfig, i + 1,
                   Pushed(grouped,
                          AssignedTeam(repoSummaries[i].repoName,
                                       teamsConfig),
                          repoSummaries[i]))

groupReposByTeam(repoSummaries, teamsConfig) ==
    GroupFrom(repoSummaries, teamsConfig, 1, <<>>)

---------------------------------------------------------------------------
(* groupReposByTeam alone: the summaries of a run are grouped             *)

MaxSummaries == 3
MaxTeams == 2

TeamNames == {"Platform", "Mobile", "7", ""}

TeamBodies ==
    {Team(<<RepoA1>>, <<>>), Team(<<>>, <<PrefixA>>),
     Team(<<RepoB1>>, <<PrefixA>>)}

\* the configurations of at most MaxTeams teams, each name used once
TeamsObjects ==
    UNION {{t \in [1..n -> {NamedTeam(name, body) :
                               name \in TeamNames, body \in TeamBodies}] :
               \A j, k \in 1..n : j # k => t[j].name # t[k].name} :
           n \in 0..MaxTeams}

\* the summaries of a run: the k-th stands for the k-th repository summarized
SummaryLists ==
    UNION {{[k \in 1..n |-> [repoName |-> names[k], summary |-> k]] :
               names \in [1..n -> {RepoA1, RepoA2, RepoB1}]} :
           n \in 0..MaxSummaries}

GroupingInit ==
    /\ AgentInit
    /\ trunc = NoTruncation
    /\ extract = NoExtraction
    /\ adapter = NoAdapterUse
    /\ disc = NoDiscovery
    /\ listing = NoListing
    /\ main = NoMain
    /\ toolres = NoToolCall
    /\ mapping = NoMapping
    /\ grouping \in {[NoGrouping EXCEPT !.stage = "summarized",
                                        !.summaries = summaries,
                                        !.teams = teams] :
                        summaries \in SummaryLists, teams \in TeamsObjects}

\* step 5 of main: the summaries are grouped by team
GroupOnce ==
    /\ grouping.stage = "summarized"
    /\ grouping' = [grouping EXCEPT
                       !.stage = "grouped",
                       !.grouped = groupReposByTeam(grouping.summaries,
                                                    grouping.teams)]
    /\ UNCHANGED <<client, deviations, agentVars, trunc, extract, adapter,
                   disc, listing, main, toolres, mapping>>

GroupingNext == GroupOnce

GroupingSpec == GroupingInit /\ [][GroupingNext]_vars

---------------------------------------------------------------------------
(* mapToolNameAndArgs alone: it is applied to a tool name and a bag        *)

MappedToolNames ==
    {<<"mcp", "GitHub", "list", "pull", "requests">>,
     GetPullRequest,
     <<"mcp", "GitHub", "get", "pull", "request", "diff">>,
     GetPullRequestFiles, ListCommits,
     <<"list", "pull", "requests">>, PullRequestReadTool, ListCommitsTool,
     <<"search", "repositories">>, ListOrgRepositoriesTool,
     <<"mcp", "GitHub", "list", "org", "repositories">>,
     <<"mcp", "GitHub", "search", "repositories">>,
     <<"mcp", "GitHub", "get", "file", "contents">>}

ArgumentKeys == {"owner", "pullNumber", "method"}
ArgumentValues(k) ==
    IF k = "owner" THEN {Owner}
    ELSE IF k = "pullNumber" THEN {"7"}
    ELSE {"get", "diff", "all"}

ArgumentBags ==
    UNION {{f \in [keys -> {Owner, "7", "get", "diff", "all"}] :
               \A k \in keys : f[k] \in ArgumentValues(k)} :
           keys \in SUBSET ArgumentKeys}

MappingInit ==
    /\ AgentInit
    /\ trunc = NoTruncation
    /\ extract = NoExtraction
    /\ adapter = NoAdapterUse
    /\ disc = NoDiscovery
    /\ listing = NoListing
    /\ main = NoMain
    /\ toolres = NoToolCall
    /\ mapping \in {[NoMapping EXCEPT !.stage = "given", !.name = name,
                                      !.args = args] :
                       name \in MappedToolNames, args \in ArgumentBags}
    /\ grouping = NoGrouping

\* callTool maps the name and the arguments it was given
MapOnce ==
    /\ mapping.stage = "given"
    /\ mapping' = [mapping EXCEPT
                      !.stage = "mapped",
                      !.out = mapToolNameAndArgs(mapping.name, mapping.args)]
    /\ UNCHANGED <<client, deviations, agentVars, trunc, extract, adapter,
                   disc, listing, main, toolres, grouping>>

MappingNext == MapOnce

MappingSpec == MappingInit /\ [][MappingNext]_vars

---------------------------------------------------------------------------
(* Properties of the tool-calling loop *)

Terminal == pc \in {"done", "raised"}

ExhaustedError == "Max iterations reached while processing repo summary"

\* the positions of the tool-result messages that carry a given id
AnswersOf(msgs, id) ==
    {j \in 1..Len(msgs) : msgs[j].role = "tool" /\ msgs[j].tool_call_id = id}

\* the calls of the assistant message at position i are answered, each
\* exactly once, by the messages that directly follow it, in order
AnsweredInPlace(msgs, i, n) ==
    \A k \in 1..n :
        /\ AnswersOf(msgs, msgs[i].calls[k].id) = {i + k}
        /\ i + k <= Len(msgs)

\* C1: whenever a round has ended (the loop is back at its head, a request
\* is in flight, or the run has returned) every assistant message of the
\* history that carries tool calls is followed by exactly one tool-result
\* message per call, carrying that call's id; within a round the calls
\* dispatched so far are answered in the same way.
C1_EveryToolCallAnswered ==
    /\ pc \in {"head", "await", "done"} =>
          \A i \in 1..Len(messages) :
              messages[i].role = "assistant" =>
                  AnsweredInPlace(messages, i, Len(messages[i].calls))
    /\ pc = "dispatch" =>
          /\ messages[Len(messages) - (idx - 1)].role = "assistant"
          /\ messages[Len(messages) - (idx - 1)].calls = pending
          /\ AnsweredInPlace(messages, Len(messages) - (idx - 1), idx - 1)
          /\ \A k \in idx..Len(pending) :
                AnswersOf(messages, pending[k].id) = {}

\* a finished round that mixed an error envelope and a throwing invocation
C1_Witness ==
    /\ pc = "head"
    /\ \E i \in 1..Len(messages) :
          /\ messages[i].role = "assistant"
          /\ Len(messages[i].calls) = 2
          /\ i + 2 <= Len(messages)
          /\ {messages[i + 1].content.kind, messages[i + 2].content.kind}
                \in {{"error-envelope", "thrown-error"},
                     {"host-text", "thrown-error"},
                     {"truncated", "error-envelope"}}

\* every step of summarizeRepo lowers this rank, which is never negative
Rank ==
    CASE pc = "idle" -> (maxIterations + 2) * (MaxCalls + 3)
      [] pc = "head" -> (maxIterations + 1 - iteration) * (MaxCalls + 3)
      [] pc = "await" -> (maxIterations + 1 - iteration) * (MaxCalls + 3) - 1
      [] pc = "dispatch" ->
            (maxIterations + 1 - iteration) * (MaxCalls + 3) - 1 - idx
      [] OTHER -> 0

\* C2: at most 20 requests are sent per invocation; the exhausted error is
\* raised exactly when the 20th round has been dispatched, with 20 requests
\* sent and no RepoSummary returned; every step of the loop lowers a
\* non-negative rank, so the loop terminates.
C2_CapAndTermination ==
    /\ [](/\ requests <= maxIterations
          /\ Rank >= 0
          /\ requests = IF pc \in {"idle", "head"} \/ error = ExhaustedError
                        THEN iteration ELSE iteration + 1
          /\ error = ExhaustedError =>
                /\ pc = "raised"
                /\ requests = maxIterations
                /\ iteration = maxIterations
                /\ result = NoResult)
    /\ [][/\ (pc = "head" /\ iteration = maxIterations /\ pc' # pc) =>
                (pc' = "raised" /\ error' = ExhaustedError)
          /\ (pc' # pc \/ idx' # idx) => Rank' < Rank]_vars

\* the cap was reached
C2_Witness ==
    /\ pc = "raised"
    /\ error = ExhaustedError
    /\ requests = maxIterations
    /\ toolInvocations >= maxIterations

\* C3: the run returns exactly when a response without tool calls has
\* arrived: it is the last message of the history, every earlier assistant
\* message carried tool calls, the returned RepoSummary is the extractor's
\* output for its text, one request was sent per round, and nothing
\* changes afterwards; a first response without tool calls means one
\* request and no tool invocation.
C3_EndsAtFirstFinalMessage ==
    /\ [](/\ pc = "done" =>
                /\ messages[Len(messages)].role = "assistant"
                /\ messages[Len(messages)].calls = <<>>
                /\ \A i \in 1..(Len(messages) - 1) :
                      messages[i].role = "assistant" =>
                          messages[i].calls # <<>>
                /\ result = parseSummaryFromMessage(
                               messages[Len(messages)].content.body,
                               Owner, repo)
                /\ requests = iteration + 1
                /\ error = "none"
                /\ iteration = 0 => (requests = 1 /\ toolInvocations = 0)
          /\ (lastResponse.kind = "message" /\ lastResponse.calls = <<>>) =>
                pc = "done"
          /\ pc # "done" => result = NoResult)
    /\ [][pc = "done" => UNCHANGED <<requests, toolInvocations, hostCalls,
                                     messages, result, pc>>]_vars

\* a run that returned in a later round, after tool calls were dispatched
C3_Witness ==
    /\ pc = "done"
    /\ iteration >= 2
    /\ toolInvocations >= 2
    /\ result.overallSummary = Placeholder

\* C4: a tool call whose argument payload does not parse never makes
\* summarizeRepo raise (it is answered by an error tool-result instead).
C4_MalformedPayloadFailsSoft ==
    error # "SyntaxError"

\* the step that invokes callTool for pending[idx]
ToolCallStep == toolInvocations' = toolInvocations + 1

NoMessageError == "No response from OpenAI"

\* C5: when callTool returns an error envelope or throws, the step appends
\* one tool-result message with the call's id and the error text, raises
\* nothing, and goes on to the next tool call of the round or, after the
\* last one, to the next round.
C5_ToolErrorDoesNotAbort ==
    [][(ToolCallStep /\ (lastCall'.kind = "raised" \/ lastCall'.isError)) =>
          /\ Len(messages') = Len(messages) + 1
          /\ SubSeq(messages', 1, Len(messages)) = messages
          /\ messages'[Len(messages')].role = "tool"
          /\ messages'[Len(messages')].tool_call_id = pending[idx].id
          /\ messages'[Len(messages')].calls = <<>>
          /\ lastCall'.kind = "raised" =>
                messages'[Len(messages')].content =
                    Text("thrown-error", ErrorPrefixLen + NotConnectedLen)
          /\ lastCall'.kind # "raised" =>
                messages'[Len(messages')].content =
                    Text("error-envelope",
                         JsonStringifyLen(
                            << ErrorCallingLen + NameLen(pending[idx].name)
                               + 2 + ShortErrLen >>))
          /\ error' = "none"
          /\ result' = NoResult
          /\ pending' = pending
          /\ idx' = idx + 1
          /\ idx < Len(pending) => (pc' = "dispatch" /\ iteration' = iteration)
          /\ idx = Len(pending) => (pc' = "head" /\ iteration' = iteration + 1)
      ]_vars

\* an error envelope was answered and the round went on to its second call,
\* which was dispatched as well
C5_Witness ==
    /\ pc = "head"
    /\ Len(pending) = 2
    /\ messages[Len(messages) - 1].content.kind = "error-envelope"
    /\ messages[Len(messages)].content.kind \in {"host-text", "thrown-error"}
    /\ lastCall.id = pending[2].id

\* C6: the error 'No response from OpenAI' is raised exactly for a response
\* without a message; the step that raises it appends nothing, invokes no
\* tool and returns no RepoSummary; a message without tool calls takes the
\* success path.
C6_NoMessageIsTerminal ==
    /\ [](/\ error = NoMessageError <=> lastResponse.kind = "none"
          /\ error = NoMessageError => (pc = "raised" /\ result = NoResult)
          /\ (lastResponse.kind = "message" /\ lastResponse.calls = <<>>) =>
                (pc = "done" /\ error = "none" /\ result # NoResult))
    /\ [][lastResponse'.kind = "none" /\ lastResponse.kind # "none" =>
             /\ messages' = messages
             /\ toolInvocations' = toolInvocations
             /\ hostCalls' = hostCalls
             /\ error' = NoMessageError
             /\ pc' = "raised"]_vars

\* the run ended on a response without a message
C6_Witness ==
    /\ pc = "raised"
    /\ error = NoMessageError
    /\ lastResponse.kind = "none"
    /\ requests = 1

\* C7: callTool never raises to its caller.
C7_CallToolNeverRaises ==
    lastCall.kind # "raised"

\* C8: the message list of every request has an estimated total of at
\* most MAX_TOTAL_MESSAGE_TOKENS.
C8_SentWithinCeiling ==
    pc = "await" => totalMessageSize(messages) <= MAX_TOTAL_MESSAGE_TOKENS

\* the step that budgets the history and sends the request
BudgetStep == pc = "head" /\ pc' = "await"

\* C9: when the estimated total of the live history is at most the ceiling,
\* the list sent is the live history, unchanged.
C9_IdentityBelowCeiling ==
    [][(BudgetStep /\ totalMessageSize(messages) <= MAX_TOTAL_MESSAGE_TOKENS)
          => messages' = messages]_vars

\* a request with a long history holding an oversized result, sent unpruned
C9_Witness ==
    /\ pc = "await"
    /\ Len(messages) > KeepLast + 1
    /\ totalMessageSize(messages) > MAX_TOOL_RESULT_TOKENS * 2
    /\ totalMessageSize(messages) <= MAX_TOTAL_MESSAGE_TOKENS

\* message 0 and the most recent n messages of msgs, in their order
RetainFirstAndRecent(msgs, n) ==
    IF Len(msgs) <= n + 1
    THEN msgs
    ELSE <<msgs[1]>> \o SubSeq(msgs, Len(msgs) - n + 1, Len(msgs))

\* C10: when the estimated total exceeds the ceiling, the list sent holds
\* message 0 and the most recent 5 messages of the history, in their
\* original order, and nothing else.
C10_PrunedKeepsFirstAndRecent ==
    [][(BudgetStep /\ totalMessageSize(messages) > MAX_TOTAL_MESSAGE_TOKENS)
          => messages' = RetainFirstAndRecent(messages, KeepLast)]_vars

\* C11: when the estimated total of the history exceeds the ceiling, the
\* estimated total of the list produced by the budgeting step is at most
\* the estimated total of the history it was given, however many messages
\* the history holds.
C11_BudgetingNeverGrows ==
    [][(BudgetStep /\ totalMessageSize(messages) > MAX_TOTAL_MESSAGE_TOKENS)
          => totalMessageSize(messages') <= totalMessageSize(messages)]_vars

---------------------------------------------------------------------------
(* Properties of truncateContent *)

\* the least k with 4 * k >= n
CeilQuarter(n) == CHOOSE k \in 0..n : 4 * k >= n /\ \A j \in 0..(k - 1) : 4 * j < n

Truncated == trunc.stage \in {"once", "twice"}

\* C12: truncateContent(text, maxTokens) returns text unchanged when the
\* estimate of text, the ceiling of its length over 4, is at most maxTokens;
\* otherwise it returns the first 4 * maxTokens characters of text followed
\* by the truncation marker.
C12_TruncateContentResult ==
    Truncated =>
        /\ estimateTokens(Len(trunc.content)) = CeilQuarter(Len(trunc.content))
        /\ CeilQuarter(Len(trunc.content)) <= trunc.maxTokens =>
              trunc.once = trunc.content
        /\ CeilQuarter(Len(trunc.content)) > trunc.maxTokens =>
              /\ Len(trunc.once) = 4 * trunc.maxTokens + Len(Marker)
              /\ \A i \in 1..(4 * trunc.maxTokens) :
                    trunc.once[i] = trunc.content[i]
              /\ \A j \in 1..Len(Marker) :
                    trunc.once[4 * trunc.maxTokens + j] = Marker[j]

\* a text one character over a budget of one token has been cut
C12_Witness ==
    /\ trunc.stage = "once"
    /\ trunc.maxTokens = 1
    /\ Len(trunc.content) = 5
    /\ trunc.once = SubSeq(trunc.content, 1, 4) \o Marker

\* C13: for every text and every non-negative maxTokens, the result of
\* truncateContent is no longer than the text.
C13_NeverLongerThanOriginal ==
    Truncated => Len(trunc.once) <= Len(trunc.content)

\* C14: the estimate of truncateContent(t, b) is at most b plus the
\* estimate of the truncation marker.
C14_EstimateWithinBudgetPlusMarker ==
    /\ Truncated =>
          estimateTokens(Len(trunc.once))
             <= trunc.maxTokens + estimateTokens(Len(Marker))
    /\ trunc.stage = "twice" =>
          estimateTokens(Len(trunc.twice))
             <= trunc.maxTokens + estimateTokens(Len(Marker))

\* a cut text whose estimate is exactly the budget plus the marker's
C14_Witness ==
    /\ trunc.stage = "once"
    /\ trunc.maxTokens > 0
    /\ trunc.once # trunc.content
    /\ estimateTokens(Len(trunc.once))
          = trunc.maxTokens + estimateTokens(Len(Marker))

\* C15: truncateContent is idempotent for a fixed budget: applied to its
\* own result with the same budget it returns that result, also when the
\* result (cut plus marker) exceeds the budget again.
C15_TruncateIdempotent ==
    trunc.stage = "twice" => trunc.twice = trunc.once

\* a text was cut, the cut text exceeded the budget and was cut again
C15_Witness ==
    /\ trunc.stage = "twice"
    /\ trunc.maxTokens > 0
    /\ trunc.once # trunc.content
    /\ estimateTokens(Len(trunc.once)) > trunc.maxTokens

---------------------------------------------------------------------------
(* Properties of parseSummaryFromMessage *)

Extracted == extract.stage = "done"

HasKey(s, key) == \E i \in 1..Len(s) : s[i] \in Fields /\ KeyOf(s[i]) = key

\* C16: extraction is total: for every final text (empty, without braces,
\* with unbalanced braces, with a brace-delimited part that is not valid
\* JSON, with valid JSON of any shape) parseSummaryFromMessage returns a
\* RepoSummary for the repository it was called for and raises nothing.
C16_ExtractionTotal ==
    Extracted =>
        /\ extract.out.kind = "summary"
        /\ extract.out.repoName = "api"
        /\ extract.out.owner = Owner
        /\ extract.out.overallSummary # Undefined
        /\ extract.out.pullRequests # Undefined
        /\ extract.out.breakingChanges # Undefined

\* a brace-delimited part that is not valid JSON was met and a summary
\* returned all the same
C16_Witness ==
    /\ Extracted
    /\ extract.payload = <<"{", SummaryX, "x", "}">>
    /\ extract.pre = <<"x">>
    /\ extract.post = <<>>
    /\ extract.out.kind = "summary"

\* C17: a final text that embeds the well-formed payload with
\* overallSummary "x" and two empty lists yields overallSummary "x" and
\* both lists empty, whatever text surrounds the payload, later text with
\* further braces included.
C17_FirstPayloadDecoded ==
    (/\ Extracted
     /\ extract.payload = FullPayload
     /\ \A i \in 1..Len(extract.pre) : extract.pre[i] # "{") =>
        /\ extract.out.overallSummary = <<"x">>
        /\ extract.out.pullRequests = <<>>
        /\ extract.out.breakingChanges = <<>>

\* C18: when no payload is found or decoding fails, the RepoSummary has
\* the raw text as overallSummary (the placeholder for the empty text) and
\* two empty lists; when a payload decodes, every field it has with a value
\* that counts as true is taken from it, a missing overallSummary is the
\* placeholder and a missing list is the empty sequence.
C18_FallbackAndDefaults ==
    Extracted =>
        /\ (jsonMatch(ExtractText) = <<>>
               \/ ~JsonParses(jsonMatch(ExtractText))) =>
              /\ ExtractText # <<>> => extract.out.overallSummary = ExtractText
              /\ ExtractText = <<>> => extract.out.overallSummary = Placeholder
              /\ extract.out.pullRequests = <<>>
              /\ extract.out.breakingChanges = <<>>
        /\ (jsonMatch(ExtractText) # <<>>
               /\ JsonParses(jsonMatch(ExtractText))) =>
              /\ ~HasKey(jsonMatch(ExtractText), "overallSummary") =>
                    extract.out.overallSummary = Placeholder
              /\ ~HasKey(jsonMatch(ExtractText), "pullRequests") =>
                    extract.out.pullRequests = <<>>
              /\ ~HasKey(jsonMatch(ExtractText), "breakingChanges") =>
                    extract.out.breakingChanges = <<>>
              /\ \A key \in {"overallSummary", "pullRequests",
                            "breakingChanges"} :
                    (/\ HasKey(jsonMatch(ExtractText), key)
                     /\ ~Falsy(JsonField(jsonMatch(ExtractText), key))) =>
                        extract.out[key]
                           = JsonField(jsonMatch(ExtractText), key)

\* a payload with a pull request but no summary and no breaking changes
C18_Witness ==
    /\ Extracted
    /\ extract.pre = <<"x">>
    /\ extract.payload = <<"{", OnePull, "}">>
    /\ extract.post = <<"x">>
    /\ extract.out.overallSummary = Placeholder
    /\ extract.out.pullRequests = <<"pr">>
    /\ extract.out.breakingChanges = <<>>

---------------------------------------------------------------------------
(* Properties of the adapter *)

\* a call of disconnect on an adapter that was never connected, or right
\* after a disconnect that returned
RepeatedDisconnect ==
    /\ adapter'.ops = adapter.ops + 1
    /\ adapter'.last.op = "disconnect"
    /\ \/ adapter.connectCalls = 0
       \/ adapter.last.op = "disconnect" /\ ~adapter.last.raised

\* C19: disconnect() is idempotent: on a never-connected adapter, or
\* called again after a disconnect, it does not raise, does not contact the
\* capability host and leaves the adapter not connected; host connections
\* are closed at most once per successful connect.
C19_DisconnectIdempotent ==
    /\ [](adapter.closes <= adapter.connects)
    /\ [][RepeatedDisconnect =>
             /\ ~adapter'.last.raised
             /\ adapter'.last.contacts = 0
             /\ client' = "null"
             /\ adapter'.closes = adapter.closes]_vars

\* a connection was opened and closed, and disconnect was called again
C19_Witness ==
    /\ adapter.connects = 1
    /\ adapter.closes = 1
    /\ adapter.last.op = "disconnect"
    /\ adapter.last.before = "null"
    /\ client = "null"

\* C20: when the host answers a call with a result whose error flag is
\* set, callTool returns an envelope with isError = true.
C20_HostErrorFlagKept ==
    (/\ adapter.last.op = "callTool"
     /\ adapter.last.host.kind = "returns"
     /\ adapter.last.host.isError) =>
        /\ adapter.last.outcome.kind = "envelope"
        /\ adapter.last.outcome.isError

---------------------------------------------------------------------------
(* Properties of repository discovery *)

\* the listing was fetched and every item of the page is a pull request
PageFetched ==
    /\ listing.stage = "done"
    /\ listing.cl = "open"
    /\ listing.host.kind = "returns"
    /\ ~listing.host.isError
    /\ listing.page.kind = "json"
    /\ \A i \in 1..Len(listing.page.items) : ~listing.page.items[i].isNull

Inside(t) == t # NoTime /\ StartDate <= t /\ t <= EndDate

RECURSIVE WithActivity(_)
WithActivity(checks) ==
    IF checks = <<>> THEN <<>>
    ELSE (IF Head(checks).prCount > 0
          THEN << [owner |-> Owner, repo |-> Head(checks).repo,
                   prCount |-> Head(checks).prCount] >>
          ELSE <<>>) \o WithActivity(Tail(checks))

\* C21: discoverReposWithActivity returns exactly the candidates whose
\* count of qualifying pull requests is above zero, each with that count
\* as prCount, in candidate order; a candidate with count 0 is not returned.
C21_ReturnsCandidatesWithActivity ==
    disc.pc = "done" =>
        /\ Len(disc.checks) = Len(disc.candidates.repos)
        /\ \A k \in 1..Len(disc.checks) :
              disc.checks[k].repo = disc.candidates.repos[k]
        /\ disc.active = WithActivity(disc.checks)
        /\ \A k \in 1..Len(disc.active) : disc.active[k].prCount > 0

\* two listed repositories, the host reporting two qualifying pull requests
\* for the first and none for the second: only the first is returned
C21_Witness ==
    /\ disc.pc = "done"
    /\ disc.teams = << Team(<<RepoA1, RepoB1>>, <<>>) >>
    /\ disc.checks = << [repo |-> RepoA1, prCount |-> 2],
                        [repo |-> RepoB1, prCount |-> 0] >>
    /\ disc.active = << [owner |-> Owner, repo |-> RepoA1, prCount |-> 2] >>

NoDuplicates(s) ==
    \A i \in 1..Len(s) : \A j \in 1..Len(s) : i # j => s[i] # s[j]

\* the teams whose repos and prefixes have been gone through
TeamsDone ==
    IF disc.pc \in {"check", "done"} THEN Len(disc.teams) ELSE disc.t - 1

\* C22: the candidate set holds each repository exactly once, whatever the
\* number of lists, prefixes, pages and teams that name it; each
\* repository is checked at most once and returned at most once.
C22_CandidatesOnce ==
    /\ NoDuplicates(disc.candidates.repos)
    /\ NoDuplicates(disc.found.repos)
    /\ \A t \in 1..TeamsDone : \A k \in 1..Len(disc.teams[t].repos) :
          \E c \in 1..Len(disc.candidates.repos) :
              disc.candidates.repos[c] = disc.teams[t].repos[k]
    /\ NoDuplicates([k \in 1..Len(disc.checks) |-> disc.checks[k].repo])
    /\ NoDuplicates([k \in 1..Len(disc.active) |-> disc.active[k].repo])

\* a repository listed twice by its team and found again by the search of
\* the team's prefix is one candidate, checked once and returned once
C22_Witness ==
    /\ disc.pc = "done"
    /\ disc.teams = << Team(<<RepoA1, RepoA1>>, <<PrefixA>>) >>
    /\ \E k \in 1..Len(disc.searches) : disc.searches[k].count = 4
    /\ disc.candidates.repos = <<RepoA1, RepoA2>>
    /\ Len(disc.checks) = 2
    /\ Len(disc.active) = 2

\* C23: a failure of the host during discovery affects only the prefix or
\* the repository it concerns: after a failed search every other prefix of
\* the same team and of the other teams is still searched, after a failed
\* listing every remaining candidate is still checked.
C23_FailureIsolated ==
    /\ disc.pc \in {"check", "done"} =>
          \A t \in 1..Len(disc.teams) :
              \A p \in 1..Len(disc.teams[t].prefixes) :
                  \E k \in 1..Len(disc.searches) :
                      /\ disc.searches[k].t = t
                      /\ disc.searches[k].p = p
    /\ disc.pc = "done" =>
          Len(disc.checks) = Len(disc.candidates.repos)

SamePrefix(e, f) == e.t = f.t /\ e.p = f.p

\* the requests of search pages so far: page size 100; the first request
\* of a prefix is page 1; page n+1 of a prefix is requested after, and only
\* after, page n came back without error with exactly 100 results
PagesInOrder ==
    /\ \A k \in 1..Len(disc.searches) :
          /\ disc.searches[k].perPage = 100
          /\ IF k > 1 /\ SamePrefix(disc.searches[k - 1], disc.searches[k])
             THEN /\ disc.searches[k].page = disc.searches[k - 1].page + 1
                  /\ disc.searches[k - 1].outcome = "page"
                  /\ disc.searches[k - 1].count = 100
             ELSE disc.searches[k].page = 1
    /\ \A k \in 1..Len(disc.searches) :
          (disc.searches[k].outcome = "page" /\ disc.searches[k].count = 100)
             => IF k < Len(disc.searches)
                THEN SamePrefix(disc.searches[k], disc.searches[k + 1])
                ELSE /\ disc.pc = "search"
                     /\ disc.t = disc.searches[k].t
                     /\ disc.p = disc.searches[k].p
                     /\ disc.page = disc.searches[k].page + 1
    /\ disc.pc = "search" =>
          \/ disc.page = 1
          \/ /\ disc.searches # <<>>
             /\ disc.searches[Len(disc.searches)].t = disc.t
             /\ disc.searches[Len(disc.searches)].p = disc.p

\* C24: for each prefix the search pages 1, 2, 3, ... are requested in
\* order with page size 100; the requests of a prefix stop exactly when a
\* page comes back with fewer than 100 results or with an error; the search
\* ends whenever the host eventually answers with such a page.
C24_Pagination == []PagesInOrder /\ <>(disc.pc = "done")

\* a full page of 100 results was followed by the request of page 2, which
\* came back short and ended the search of the prefix
C24_Witness ==
    /\ disc.pc = "done"
    /\ \E k \in 2..Len(disc.searches) :
          /\ disc.searches[k].page = 2
          /\ disc.searches[k].count = 1
          /\ disc.searches[k - 1].count = 100

---------------------------------------------------------------------------
(* Properties of the main program *)

\* the repositories whose conversation returned a summary
RECURSIVE Succeeded(_)
Succeeded(attempts) ==
    IF attempts = <<>> THEN <<>>
    ELSE (IF Head(attempts).outcome = "summary"
          THEN << Head(attempts).repo >> ELSE <<>>)
         \o Succeeded(Tail(attempts))

LoopOver == main.pc \in {"collected", "exited"} /\ main.repos # <<>>

\* C26: an error raised while one repository is summarized is caught in the
\* loop of main: the repository contributes no summary, every remaining
\* repository is still processed in order, and the summaries collected are
\* those of the repositories that succeeded, in discovery order.
C26_RepoErrorsAreLocal ==
    /\ \A k \in 1..Len(main.attempts) :
          main.attempts[k].repo = main.repos[k]
    /\ main.summaries = Succeeded(main.attempts)
    /\ LoopOver => Len(main.attempts) = Len(main.repos)

\* the first of two repositories raised, the second was summarized and is
\* the only one in the newsletter
C26_Witness ==
    /\ main.pc = "exited"
    /\ main.written
    /\ main.repos = <<RepoA1, RepoB1>>
    /\ main.attempts[1].outcome = "SyntaxError"
    /\ main.attempts[2].outcome = "summary"
    /\ main.summaries = <<RepoB1>>

NothingToReport ==
    /\ main.pc = "exited"
    /\ \/ main.at = "discover"
       \/ main.at = "collected" /\ main.summaries = <<>>

\* C27: main exits with status 0 and writes no newsletter when discovery
\* returns no active repository or when no repository was summarized; it
\* exits with status 1 for any other uncaught error; the newsletter is
\* written only when at least one repository was summarized.
C27_ExitStatus ==
    /\ NothingToReport => main.exit = 0 /\ ~main.written
    /\ (main.pc = "exited" /\ main.failure \in {"config", "connect", "write"})
          => main.exit = 1
    /\ main.written => main.summaries # <<>>

\* C27, amended: with nothing to report main disconnects and exits with
\* status 0 unless that disconnect raises; every uncaught error, the one of
\* a disconnect included, gives status 1, and only an uncaught error does;
\* without a summary no newsletter is written.
C27_ExitStatusUnlessDisconnectRaises ==
    /\ NothingToReport =>
          /\ ~main.written
          /\ main.closeCalls = 1
          /\ main.exit = IF main.failure = "disconnect" THEN 1 ELSE 0
    /\ main.pc = "exited" =>
          /\ main.exit \in {0, 1}
          /\ main.exit = 1 <=> main.failure # "none"
    /\ main.written => main.summaries # <<>>

\* two active repositories, both conversations raised: nothing is written
\* and the status is 0
C27_Witness ==
    /\ NothingToReport
    /\ Len(main.attempts) = 2
    /\ main.failure = "none"
    /\ main.exit = 0
    /\ ~main.written

\* 'env:NAME' where the variable NAME is not set or is empty
NamesMissingVariable(value) ==
    /\ Len(value) >= 4
    /\ SubSeq(value, 1, 4) = <<"e", "n", "v", ":">>
    /\ SubSeq(value, 5, Len(value)) # EnvSet

Literal(value) ==
    ~(Len(value) >= 4 /\ SubSeq(value, 1, 4) = <<"e", "n", "v", ":">>)

\* C28: when the token or the key of the configuration is 'env:NAME' and
\* the variable NAME is unset or empty, loadConfig raises before any
\* connection to the host and any request to the reasoning service, and
\* the run ends with status 1; a value without 'env:' is used as it is.
C28_MissingSecretFailsFirst ==
    /\ (/\ main.file.kind = "ok"
        /\ \/ NamesMissingVariable(main.file.token)
           \/ NamesMissingVariable(main.file.apiKey)) =>
          /\ main.connects = 0
          /\ main.requests = 0
          /\ main.cl = "null"
          /\ \/ main.pc = "load"
             \/ main.pc = "exited" /\ main.exit = 1
    /\ main.at # "load" =>
          /\ Literal(main.file.token) => main.config.token = main.file.token
          /\ Literal(main.file.apiKey) =>
                main.config.apiKey = main.file.apiKey

\* a literal token and a key that names an empty variable: the run has
\* ended with status 1 without a connection
C28_Witness ==
    /\ main.pc = "exited"
    /\ main.file.token = SecretValue
    /\ main.file.apiKey = <<"e", "n", "v", ":", "E">>
    /\ main.exit = 1
    /\ main.connects = 0

\* C29: repositories are summarized one at a time: at most one conversation
\* is in flight, the conversation of a repository starts only after those
\* of all repositories before it have returned or raised, and the adapter
\* has at most one invocation pending.
C29_OneConversationAtATime ==
    /\ Cardinality(main.inFlight) <= 1
    /\ \A r \in main.inFlight :
          /\ r = main.i
          /\ Len(main.attempts) = r - 1
    /\ main.invoking <= 1
    /\ main.invoking = 1 => Cardinality(main.inFlight) = 1

\* the conversation of the second repository has an invocation pending,
\* the first conversation is over
C29_Witness ==
    /\ main.pc = "conversation"
    /\ main.inFlight = {2}
    /\ main.invoking = 1
    /\ Len(main.attempts) = 1

---------------------------------------------------------------------------
(* Order within a round *)

\* the step that opens a round of tool calls
RoundOpens == pc = "await" /\ pc' = "dispatch"

\* C30: within a round the assistant message is appended to the history
\* before any tool is dispatched, the tool calls are invoked one after
\* another in the order in which the reasoning service returned them, and
\* their tool-result messages are appended in that order directly after
\* the assistant message, with no other message in between.
C30_RoundOrder ==
    [][/\ RoundOpens =>
             /\ Len(messages') = Len(messages) + 1
             /\ SubSeq(messages', 1, Len(messages)) = messages
             /\ messages'[Len(messages')].role = "assistant"
             /\ messages'[Len(messages')].calls = lastResponse'.calls
             /\ pending' = lastResponse'.calls
             /\ idx' = 1
             /\ toolInvocations' = toolInvocations
       /\ ToolCallStep =>
             /\ pc = "dispatch"
             /\ messages[Len(messages) - (idx - 1)].role = "assistant"
             /\ messages[Len(messages) - (idx - 1)].calls = pending
             /\ \A k \in 1..(idx - 1) :
                   /\ messages[Len(messages) - (idx - 1) + k].role = "tool"
                   /\ messages[Len(messages) - (idx - 1) + k].tool_call_id
                         = pending[k].id
             /\ lastCall'.id = pending[idx].id
             /\ Len(messages') = Len(messages) + 1
             /\ SubSeq(messages', 1, Len(messages)) = messages
             /\ messages'[Len(messages')].role = "tool"
             /\ messages'[Len(messages')].tool_call_id = pending[idx].id
             /\ pending' = pending
             /\ idx' = idx + 1
       /\ (pc = "dispatch" /\ ~ToolCallStep) => messages' = messages]_vars

\* a round of two calls has ended: the history ends with the assistant
\* message, the result of its first call and the result of its second call
C30_Witness ==
    /\ pc = "head"
    /\ Len(pending) = 2
    /\ Len(messages) >= 3
    /\ messages[Len(messages) - 2].role = "assistant"
    /\ messages[Len(messages) - 2].calls = pending
    /\ messages[Len(messages) - 1].tool_call_id = pending[1].id
    /\ messages[Len(messages)].tool_call_id = pending[2].id
    /\ pending[1].id # pending[2].id
    /\ lastCall.id = pending[2].id

---------------------------------------------------------------------------
(* Properties of the tool-result message of one call *)

\* callTool returned an envelope without error flag
CallSucceeded ==
    /\ toolres.stage = "pushed"
    /\ toolres.outcome.kind = "envelope"
    /\ ~toolres.outcome.isError

BulkContentTool(name) ==
    \E i \in 1..Len(name) : name[i] \in {"diff", "files"}

\* truncateContent(joined segments, 5000 or 10000)
TruncatedJoined ==
    truncateContent(Text("host-text", JoinedLen(toolres.outcome.segs)),
                    IF BulkContentTool(toolres.name) THEN 5000 ELSE 10000)

\* C31: for a successful tool call the appended text is
\* truncateContent(joined segments, 5000) when the tool name contains
\* 'diff' or 'files' and truncateContent(joined segments, 10000) otherwise.
C31_ResultIsTruncatedJoin ==
    CallSucceeded => toolres.content = TruncatedJoined

\* C31, amended: as C31 when the joined text is not empty; when it is
\* empty the JSON encoding of the segments is appended instead.
C31_ResultIsTruncatedJoinOrJson ==
    CallSucceeded =>
        /\ JoinedLen(toolres.outcome.segs) > 0 =>
              toolres.content = TruncatedJoined
        /\ JoinedLen(toolres.outcome.segs) = 0 =>
              toolres.content =
                  Text("host-json", JsonStringifyLen(toolres.outcome.segs))
        /\ MAX_TOOL_RESULT_TOKENS < MAX_TOOL_RESULT_TOKENS * 2

\* a text of 20001 characters is cut for a diff tool and kept whole for
\* the listing tool
C31_Witness ==
    /\ CallSucceeded
    /\ toolres.host.segs = <<TightChars + 1>>
    /\ \/ /\ toolres.name = GetPullRequestDiff
          /\ toolres.content.kind = "truncated"
          /\ toolres.content.len = TightChars + MarkerLen
       \/ /\ toolres.name = ListPullRequests
          /\ toolres.content.kind = "host-text"
          /\ toolres.content.len = TightChars + 1

\* C32: every tool-result message appended, whether the invocation
\* succeeded, returned an error envelope or threw, has an estimated size of
\* at most 10000 tokens plus the cost of the marker.
C32_ResultSizeBounded ==
    toolres.stage = "pushed" =>
        estimateTokens(ContentStringLen(toolres.content))
            <= 10000 + estimateTokens(MarkerLen)

---------------------------------------------------------------------------
(* Properties of pruning *)

HasUserPrompt(msgs) == \E i \in 1..Len(msgs) : msgs[i].role = "user"

\* the message is one of the list
IsIn(m, msgs) == \E j \in 1..Len(msgs) : msgs[j] = m

\* the message is made by the step that appends it: an assistant message
\* whose tool calls have ids not issued before, or the result of the call
\* being dispatched, a call of the latest assistant message
MadeNow(m) ==
    \/ /\ pc = "await"
       /\ m.role = "assistant"
       /\ \A k \in 1..Len(m.calls) : m.calls[k].id >= nextId
    \/ /\ pc = "dispatch"
       /\ m.role = "tool"
       /\ m.tool_call_id = pending[idx].id
       /\ messages[Len(messages) - (idx - 1)].calls = pending
       /\ \A j \in 1..Len(messages) :
             messages[j].role = "tool" =>
                 messages[j].tool_call_id # m.tool_call_id

\* C33: pruning is irreversible within a run: a message that the budgeting
\* step has dropped is absent from every later request of the run. No step
\* of the run brings a message back: the list after a step holds messages
\* of the list before it and at most one more, at its end, made by that
\* step with an id that no earlier message has; the budgeting step adds
\* none, and the pruned list is the history from then on.
C33_PruningIrreversible ==
    [][pc # "idle" =>
          /\ BudgetStep =>
                \A i \in 1..Len(messages') : IsIn(messages'[i], messages)
          /\ ~BudgetStep =>
                \/ messages' = messages
                \/ /\ messages' = Append(messages, messages'[Len(messages')])
                   /\ MadeNow(messages'[Len(messages')])
          /\ nextId' >= nextId
          /\ messages' # <<>>
          /\ messages'[Len(messages')].tool_call_id < nextId'
          /\ \A k \in 1..Len(messages'[Len(messages')].calls) :
                messages'[Len(messages')].calls[k].id < nextId']_vars

\* a request was sent from which the budgeting step has dropped the user
\* prompt and the assistant message of the first round
C33_Witness ==
    /\ pc = "await"
    /\ ~HasUserPrompt(messages)
    /\ \A j \in 1..Len(messages) :
          \A k \in 1..Len(messages[j].calls) : messages[j].calls[k].id # 1
    /\ nextId > 1
    /\ Len(messages) = KeepLast + 1

\* C34: in every message list sent to the reasoning service each
\* tool-result message is preceded in the list by an assistant message
\* that carries a tool call with the same id.
C34_NoOrphanToolResult ==
    pc = "await" =>
        \A j \in 1..Len(messages) :
            messages[j].role = "tool" =>
                \E i \in 1..(j - 1) :
                    /\ messages[i].role = "assistant"
                    /\ \E k \in 1..Len(messages[i].calls) :
                          messages[i].calls[k].id = messages[j].tool_call_id

---------------------------------------------------------------------------
(* Release of the adapter *)

\* C35: on every path by which main ends after connect() has succeeded
\* (normal completion, the exit without active repositories, the exit
\* without summaries, a fatal error caught by the outer handler)
\* disconnect() is called on the adapter before the process exits.
C35_DisconnectOnEveryExit ==
    (main.pc = "exited" /\ main.at \notin {"load", "connect"}) =>
        main.closeCalls >= 1

---------------------------------------------------------------------------
(* Connection state of the adapter *)

\* the adapter was never connected, its last connect() raised, or it was
\* disconnected and not connected again
LeftNotConnected ==
    \/ adapter.connectCalls = 0
    \/ adapter.last.op = "connect" /\ adapter.last.raised
    \/ adapter.last.op = "disconnect" /\ ~adapter.last.raised

\* the most recent connect() completed and nothing was called since
JustConnected == adapter.last.op = "connect" /\ ~adapter.last.raised

AdapterCalled(op) ==
    adapter'.ops = adapter.ops + 1 /\ adapter'.last.op = op

\* C36: callTool forwards an invocation to the host only when the most
\* recent connect() completed and no disconnect() happened since; after a
\* connect() that raised the adapter is in the not-connected state of a
\* never-connected one: callTool reports 'MCP client not connected' and
\* disconnect() closes nothing.
C36_ForwardsOnlyWhenConnected ==
    [][/\ (LeftNotConnected /\ AdapterCalled("callTool")) =>
             /\ adapter'.last.contacts = 0
             /\ adapter'.last.outcome.kind = "raised"
             /\ adapter'.last.outcome.msgLen = NotConnectedLen
       /\ (LeftNotConnected /\ AdapterCalled("disconnect")) =>
             /\ adapter'.last.contacts = 0
             /\ ~adapter'.last.raised
             /\ adapter'.closes = adapter.closes
       /\ (JustConnected /\ AdapterCalled("callTool")) =>
             adapter'.last.contacts = 1]_vars

---------------------------------------------------------------------------
(* Properties of mapToolNameAndArgs *)

\* the bag with the method given and every other key as it was
SameButMethod(bag, args, m) ==
    /\ DOMAIN bag = DOMAIN args \cup {"method"}
    /\ bag["method"] = m
    /\ \A k \in DOMAIN args \ {"method"} : bag[k] = args[k]

MapsTo(name, actual) ==
    mapping.name = name =>
        /\ mapping.out.actualToolName = actual
        /\ mapping.out.adjustedArgs = mapping.args

MapsToRead(name, m) ==
    mapping.name = name =>
        /\ mapping.out.actualToolName = <<"pull", "request", "read">>
        /\ SameButMethod(mapping.out.adjustedArgs, mapping.args, m)

\* C37: mcp_GitHub_list_pull_requests maps to list_pull_requests,
\* mcp_GitHub_list_commits to list_commits, mcp_GitHub_get_pull_request,
\* _diff and _files to pull_request_read with method 'get', 'diff' and
\* 'files'; the caller's bag is never modified; the concrete names
\* list_pull_requests, pull_request_read, list_commits and
\* search_repositories are mapped to themselves with the same arguments.
C37_ToolNameMapping ==
    mapping.stage = "mapped" =>
        /\ MapsTo(<<"mcp", "GitHub", "list", "pull", "requests">>,
                  <<"list", "pull", "requests">>)
        /\ MapsTo(<<"mcp", "GitHub", "list", "commits">>,
                  <<"list", "commits">>)
        /\ MapsToRead(<<"mcp", "GitHub", "get", "pull", "request">>, "get")
        /\ MapsToRead(<<"mcp", "GitHub", "get", "pull", "request", "diff">>,
                      "diff")
        /\ MapsToRead(<<"mcp", "GitHub", "get", "pull", "request", "files">>,
                      "files")
        /\ mapping.out.args = mapping.args
        /\ \A name \in {<<"list", "pull", "requests">>,
                        <<"pull", "request", "read">>,
                        <<"list", "commits">>,
                        <<"search", "repositories">>} :
              MapsTo(name, name)

\* the diff tool called with a bag that already has the method 'get': the
\* host gets 'diff', the caller's bag still says 'get'
C37_Witness ==
    /\ mapping.stage = "mapped"
    /\ mapping.name = <<"mcp", "GitHub", "get", "pull", "request", "diff">>
    /\ "method" \in DOMAIN mapping.args
    /\ mapping.args["method"] = "get"
    /\ mapping.out.adjustedArgs["method"] = "diff"
    /\ mapping.out.args["method"] = "get"
    /\ mapping.out.actualToolName = <<"pull", "request", "read">>

---------------------------------------------------------------------------
(* Properties of groupReposByTeam *)

\* the teams of the configuration that match a repository name, by their
\* place in the configuration
MatchingTeams(repoName) ==
    {k \in 1..Len(grouping.teams) :
        \/ HasRepo(grouping.teams[k], repoName)
        \/ HasPrefixOf(grouping.teams[k], repoName)}

\* the first matching team in configuration order, or 'Unassigned'
FirstMatchingTeam(repoName) ==
    IF MatchingTeams(repoName) = {} THEN "Unassigned"
    ELSE grouping.teams[CHOOSE k \in MatchingTeams(repoName) :
                            \A h \in MatchingTeams(repoName) : k <= h].name

\* the places of a summary in the groups
PlacesOf(summary) ==
    {<<g, k>> \in UNION {{<<g, k>> : k \in 1..Len(grouping.grouped[g])} :
                         g \in DOMAIN grouping.grouped} :
        grouping.grouped[g][k] = summary}

RECURSIVE GroupSizes(_)
GroupSizes(groups) ==
    IF groups = {} THEN 0
    ELSE LET g == CHOOSE x \in groups : TRUE
         IN Len(grouping.grouped[g]) + GroupSizes(groups \ {g})

InOneGroup ==
    \A i \in 1..Len(grouping.summaries) :
        Cardinality(PlacesOf(grouping.summaries[i])) = 1

SizesAddUp ==
    GroupSizes(DOMAIN grouping.grouped) = Len(grouping.summaries)

KeepsInputOrder ==
    \A g \in DOMAIN grouping.grouped :
        \A j, k \in 1..Len(grouping.grouped[g]) :
            j < k => grouping.grouped[g][j].summary
                         < grouping.grouped[g][k].summary

\* C38: every summary is in exactly one group, the group of the first team
\* in configuration order whose repos list has the repository name or one
\* of whose prefixes is a prefix of it, 'Unassigned' when no team matches;
\* the group sizes sum to the number of summaries and each group keeps the
\* input order.
C38_GroupedByFirstMatchingTeam ==
    grouping.stage = "grouped" =>
        /\ InOneGroup
        /\ \A i \in 1..Len(grouping.summaries) :
              \A place \in PlacesOf(grouping.summaries[i]) :
                  place[1] = FirstMatchingTeam(grouping.summaries[i].repoName)
        /\ SizesAddUp
        /\ KeepsInputOrder

---------------------------------------------------------------------------
(* Properties of the members of the summary returned *)

\* the value is a list: none of the values that are not
IsSequenceValue(value) ==
    value \notin {Undefined, <<"null">>, <<"0">>, <<"5">>, <<"\"none\"">>,
                  <<"{}">>}

\* C39: for every final text, payloads whose pullRequests or
\* breakingChanges member is a number, a string or an object included,
\* parseSummaryFromMessage returns a summary with the repository name and
\* the owner it was given and with lists for pullRequests and
\* breakingChanges.
C39_MembersAreSequences ==
    extract.stage = "done" =>
        /\ extract.out.repoName = "api"
        /\ extract.out.owner = Owner
        /\ IsSequenceValue(extract.out.pullRequests)
        /\ IsSequenceValue(extract.out.breakingChanges)

====
